---- MODULE Spec2Model ----
(***************************************************************************)
(* A model of the tmemes macro cache: the /content/macro handler           *)
(* (serveContentMacro, serveFileCached, generateMacro, generateMacroGIF in  *)
(* cmd/tmemes/api.go), the store operations it races with (DeleteMacro in   *)
(* store/store.go) and the cache janitor (cleanMacroCache, in the store's    *)
(* SQLite index file).                                                      *)
(*                                                                         *)
(* A macro's cache path is a function of the cache seed, the macro ID and   *)
(* the template's extension; with a fixed seed the path is identified with  *)
(* the macro ID.  Time is kept as each file's access age (time.Since of its *)
(* atime), saturating one step above maxAccessAge, the only value the code  *)
(* compares it with.                                                        *)
(***************************************************************************)
EXTENDS Integers, Sequences, FiniteSets, TLC

\* ------------------------------------------------------------------ bounds
NReq == 2
NJanitorReq == 1

\* ------------------------------------------------------ program constants
\* Options.maxAccessAge / Options.minPruneBytes, in the units of the model.
maxAccessAge == 1
minPruneBytes == 2

Reqs == 1..NReq
\* The requests that race with the janitor.
JanitorReqs == 1..NJanitorReq
\* The macros of the store: macro 1 over a .png template, macro 2 over a .gif.
MacroIDs == {1, 2}
\* A name in the cache directory that is not a regular file.
NonRegular == 0

\* ------------------------------------------------------------- memedraw
\* The colours a quantized frame can hold.
MaxColors == 3
\* The frames of a GIF whose shared palette is built.
MaxPaletteFrames == 2
\* The palette is cut at 256 entries, in the units of the model.
paletteLimit == 2

Colors == 1..MaxColors

\* The frames of the image a text line is drawn on.
MaxFrames == 4
\* The areas of a text line.
MaxAreas == 3
\* Start and End are multiples of 1/FracDen: a power of two, so that the
\* fractions and their products with a frame count are exact in float64.
FracDen == 4
\* The coordinates an area is placed at, in thirds of the image's width or
\* height: the corners 0 and 1 of the range ValidForCreate accepts.
Coords == {0, 3}

\* tmemes.Area: the position and the tween flag.
Areas == [X : Coords, Y : Coords, Tween : BOOLEAN]
\* tmemes.TextLine, as ValidForCreate accepts it: at least one area, Start and
\* End within [0, 1] (here the numerators over FracDen).
TextLines ==
    [Field : UNION {[1..n -> Areas] : n \in 1..MaxAreas},
     Start : 0..FracDen, End : 0..FracDen]

\* The widths of an area's text box, in units of 1/FracDen of the image's
\* width: 0 (the full width) and one half.
Widths == {0, 2}
\* tmemes.Area with its Width.
WideAreas == [X : Coords, Y : Coords, Width : Widths, Tween : BOOLEAN]
\* The text lines drawn on an image, each area with its own width, shown from
\* the first frame or from the middle of the image.
OverlayLines ==
    [Field : UNION {[1..n -> WideAreas] : n \in 1..MaxAreas},
     Start : {0, 2}, End : {0, 2}]

\* The goroutines the task group runs at a time.
MaxWorkers == 2
\* gif.DisposalNone, gif.DisposalBackground, gif.DisposalPrevious; 0 is a
\* frame without a disposal method.
DisposalNone == 1
DisposalBackground == 2
DisposalPrevious == 3
Disposals == 0..3

\* A canvas is the sequence of what was drawn over the plain background
\* colour: i for frame i's pixels, -i for the text drawn on frame i.
Background == <<>>
\* A backdrops slot that was never assigned (a nil *image.Paletted).
Unset == <<0>>

NoLine == [Field |-> <<>>, Start |-> 0, End |-> 0]
\* No frames value: framesPerArea of a newFrames result is at least 1.
NoFrames == [line |-> NoLine, framesPerArea |-> 0, start |-> 0, end |-> 0]
\* The two renders of one macro that are compared.
Renders == {1, 2}
AgeCap == maxAccessAge + 1

\* No Etag header: imageFileEtags holds nothing for the path.
NoTag == <<"none", 0>>

\* ---------------------------------------------------- overlayTextOnImage
\* Image heights are multiples of 9 pixels, up to 9 * MaxHeightSteps.
MaxHeightSteps == 9
\* The words of a text.
MaxWords == 4
\* for len(lines) > 2 && fontSize > 6
maxWrappedLines == 2
minFontSize == 6
\* The lengths of a word, in characters.
WordLens == {1, 3}
\* oneForZero(Width) * bounds.Dx(), in pixels.
WrapWidths == {24, 48}
Heights == {9 * k : k \in 1..MaxHeightSteps}
Texts == UNION {[1..n -> WordLens] : n \in 1..MaxWords}

\* ---------------------------------------------------------------- store
\* The templates and the macros a run adds to the store.
MaxStoreTemplates == 2
MaxStoreMacros == 2
\* The users of the tailnet: each uploads one template at a time.
Users == {1, 2}
\* Template names, in the canonical form canonicalTemplateName produces.
Names == {"a", "b"}
\* The values --cache-seed is given; the empty string is the unset seed.
Seeds == {"", "0000", "7"}
\* The ID no template and no macro has: the ID of a value not yet added, and
\* the result of a lookup that failed.
NotFound == 0
\* An AddTemplate call that is not in progress.
NoUpload == ""
\* An empty db.templates or db.macros.
NoEntries == [i \in {} |-> i]

\* ---------------------------------------------------------------- colors
\* n2c: the colour names and their hex strings.
n2c ==
    [white |-> "#ffffff", silver |-> "#c0c0c0", gray |-> "#808080",
     black |-> "#000000", red |-> "#ff0000", maroon |-> "#800000",
     yellow |-> "#ffff00", olive |-> "#808000", lime |-> "#00ff00",
     green |-> "#008000", aqua |-> "#00ffff", teal |-> "#008080",
     blue |-> "#0000ff", navy |-> "#000080", fuchsia |-> "#ff00ff",
     purple |-> "#800080"]
\* The texts parsed: the names, their hex strings, and hex strings that are
\* short, upper-case, without the #, empty or invalid.
ColorTexts ==
    DOMAIN n2c \cup {n2c[n] : n \in DOMAIN n2c}
    \cup {"", "#fff", "f00", "#C0C0C0", "808080", "#12", "grey", "#ggg", "#0a141e"}
\* The zero Color, as var c Color declares it: each channel is a fraction
\* <<numerator, denominator>>.
ZeroColor == <<<<0, 1>>, <<0, 1>>, <<0, 1>>>>

\* ---------------------------------------------------------------- Areas
\* The longest Areas value encoded.
MaxJSONAreas == 2
\* The Area values encoded: Width and Tween are left out of the JSON text
\* when they are zero.
JSONAreas == [X : {0, 25}, Y : {0, 2}, Width : {0, -99}, Tween : BOOLEAN]
\* The zero Area a JSON object is decoded into.
ZeroArea == [X |-> 0, Y |-> 0, Width |-> 0, Tween |-> FALSE]
\* The ways an Areas value is written: by Areas.MarshalJSON, as the array
\* json.Marshal gives for a plain []Area, and as that array with a member
\* no field of Area is named after in each object.
Forms == {"marshal", "array", "extra"}

\* ------------------------------------------------------------- slicePage
\* The width of an int, scaled down from 64 bits, and the longest list.
IntBits == 6
MaxItems == 4
\* The largest int.
MaxInt == 2 ^ (IntBits - 1) - 1
\* What slicing out of range does.
Panic == <<-1>>

\* ----------------------------------------------------------- imageBounds
\* The frames of a GIF whose bounds are taken, and the largest coordinate of
\* a frame's rectangle.
MaxRectFrames == 2
MaxCoord == 2
\* No rectangle: imageBounds has not run, or a frame has not been drawn.
NoRect == [Min |-> [X |-> -1, Y |-> -1], Max |-> [X |-> -1, Y |-> -1]]

\* No generation is in flight.
NoGeneration == [path |-> "", image |-> <<>>]

VARIABLES
    macros,      \* db.macros: the IDs of the macros in the store
    file,        \* the cache directory: path -> "absent" | "partial" | "complete"
    age,         \* time.Since(atime) of the file at each path
    etags,       \* tmemeServer.imageFileEtags
    flight,      \* macroGenerationSingleFlight: path -> request running the call, 0 if none
    mu,          \* DB.mu is held by the janitor's removal phase
    pc,          \* each request's position in serveContentMacro
    mid,         \* the macro (and cache path) each request asked for
    via,         \* how the request got to its result: "none" | "hit" | "leader" | "waiter"
    leader,      \* for a waiter, the request whose call it shares
    res,         \* result of the singleflight call as seen by the request
    resp,        \* the response written
    genCount,    \* number of generateMacro executions started per path
    removedBy,   \* who last unlinked the file at each path: "none" | "janitor" | "other"
    jpc,         \* the janitor's position in cleanMacroCache
    es,          \* entries of the directory listing still to scan
    cand,        \* candidate paths of this tick
    totalSize,   \* total size accumulated by this tick's scan
    oldAtScan,   \* paths whose age exceeded maxAccessAge when this tick read their atime
    tick,        \* a tick is pending in the ticker's channel
    cancelled,   \* the janitor's context is cancelled
    closed,      \* DB.Close has returned: db.sqldb is closed and nil
    quantized,   \* makeColorPalette: quantize.Image(img, 8) of each rendered frame
    palette,     \* the palette makeColorPalette returned to each render, <<>> before
    frameCount,  \* the number of frames of the image a text line is drawn on
    line,        \* the tmemes.TextLine
    tf,          \* newFrames(frameCount, line)
    resolved,    \* for frames 0, 1, ...: visibleAt(i), frame(i) and frame(i).area()
    nframes,     \* DrawGIF: len(img.Image)
    disposal,    \* img.Disposal
    limit,       \* runtime.NumCPU(), the limit of the task group
    started,     \* the frames whose task the loop has started
    tpc,         \* each frame task's position
    backdrops,   \* backdrops[i]: a canvas, or Unset
    backdropReady, \* backdropReady[i] is closed
    dst,         \* each task's canvas; img.Image[i] when the task is done
    returned,    \* g.Wait() has returned
    imgHeight,   \* overlayTextOnImage: bounds.Dy()
    words,       \* the text, as the lengths of its words
    wrapWidth,   \* the width the text is wrapped to, in pixels
    fontSize,    \* the font size in points
    nlines,      \* len(lines) of the last dc.WordWrap
    wpc,         \* the position in overlayTextOnImage: "idle" | "start" | "loop" | "drawn"
    dbTemplates, \* db.templates: template ID -> Template
    dbMacros,    \* db.macros: macro ID -> Macro
    nextTemplateID,\* db.nextTemplateID
    nextMacroID, \* db.nextMacroID
    cacheSeed,   \* db.cacheSeed
    adding,      \* the AddTemplate call of each user: the template past the name check
    creating,    \* the create page's request: the template serveUICreate found
    text,        \* the text a Color is parsed from
    in1,         \* the Color parsed from text
    in2,         \* the Color parsed from the hex string of text
    out,         \* in1.MarshalText()
    cpc,         \* where the round trip of text is
    areasIn,     \* the Areas value that is encoded
    form,        \* how areasIn is written as JSON
    areasJSON,   \* the JSON text, token by token
    areasOut,    \* the Areas value decoded from areasJSON
    apc,         \* where the round trip of areasIn is
    vs,          \* the list a page is taken of
    page,        \* the page parameter
    count,       \* the count parameter
    pageItems,   \* the subslice slicePage returns, or its panic
    isLast,      \* the flag slicePage returns
    ppc,         \* whether slicePage has been called
    frameRects,  \* the bounds of the frames of the source GIF
    gifBounds,   \* the bounds imageBounds returned, or NoRect before it ran
    drawn,       \* per frame, the rectangle of it drawn into its output image
    macroFiles,  \* the files of the macro cache: path -> the rendering written to it
    generating   \* the generation of a macro's image in flight, or NoGeneration

reqVars == <<pc, mid, via, leader, res, resp>>
janVars == <<jpc, es, cand, totalSize, oldAtScan>>
cacheVars == <<macros, file, age, etags, flight, mu, pc, mid, via, leader, res, resp,
               genCount, removedBy, jpc, es, cand, totalSize, oldAtScan, tick, cancelled>>
\* The state outside the content cache and its janitor.
palVars == <<quantized, palette>>
lineVars == <<frameCount, line, tf, resolved>>
gifVars == <<nframes, disposal, limit, started, tpc, backdrops, backdropReady, dst, returned>>
wrapVars == <<imgHeight, words, wrapWidth, fontSize, nlines, wpc>>
storeVars == <<dbTemplates, dbMacros, nextTemplateID, nextMacroID, cacheSeed, adding, creating>>
colorVars == <<text, in1, in2, out, cpc>>
areasVars == <<areasIn, form, areasJSON, areasOut, apc>>
pageVars == <<vs, page, count, pageItems, isLast, ppc>>
rectVars == <<frameRects, gifBounds, drawn>>
diskVars == <<macroFiles, generating>>
restVars == <<closed, palVars, lineVars, gifVars, wrapVars, storeVars, colorVars, areasVars, pageVars, rectVars, diskVars>>
\* What a step of one part of memedraw leaves alone.
outsidePalette == <<cacheVars, closed, lineVars, gifVars, wrapVars, storeVars, colorVars, areasVars, pageVars, rectVars, diskVars>>
outsideLine == <<cacheVars, closed, palVars, gifVars, wrapVars, storeVars, colorVars, areasVars, pageVars, rectVars, diskVars>>
outsideGif == <<cacheVars, closed, palVars, lineVars, wrapVars, storeVars, colorVars, areasVars, pageVars, rectVars, diskVars>>
outsideClose == <<cacheVars, palVars, lineVars, gifVars, wrapVars, storeVars, colorVars, areasVars, pageVars, rectVars, diskVars>>
outsideWrap == <<cacheVars, closed, palVars, lineVars, gifVars, storeVars, colorVars, areasVars, pageVars, rectVars, diskVars>>
outsideStore == <<cacheVars, closed, palVars, lineVars, gifVars, wrapVars, colorVars, areasVars, pageVars, rectVars>>
outsideColor == <<cacheVars, closed, palVars, lineVars, gifVars, wrapVars, storeVars, areasVars, pageVars, rectVars, diskVars>>
outsideAreas == <<cacheVars, closed, palVars, lineVars, gifVars, wrapVars, storeVars, colorVars, pageVars, rectVars, diskVars>>
outsidePage == <<cacheVars, closed, palVars, lineVars, gifVars, wrapVars, storeVars, colorVars, areasVars, rectVars, diskVars>>
outsideRect == <<cacheVars, closed, palVars, lineVars, gifVars, wrapVars, storeVars, colorVars, areasVars, pageVars, diskVars>>
outsideDisk == <<cacheVars, closed, palVars, lineVars, gifVars, wrapVars, storeVars, colorVars, areasVars, pageVars, rectVars>>
vars == <<cacheVars, restVars>>

\* --------------------------------------------------------------- helpers
\* filepath.Ext(t.Path) of the macro's template.
Ext(m) == IF m = 1 THEN ".png" ELSE ".gif"

\* Size in bytes of the rendered file of macro m; a file just created is empty.
FileSize(m, st) == IF st = "complete" THEN m ELSE 0

\* formatEtag(sha256 of the rendered bytes): rendering is a function of the macro.
formatEtag(m) == <<"sha256", m>>

\* makeFileEtag(path) of a file that exists: the hash of the bytes in it, of
\* which a file that is being written has none yet.
makeFileEtag(p) == IF file[p] = "complete" THEN formatEtag(p) ELSE formatEtag(0)

NoResp == [code |-> "none", etag |-> NoTag, body |-> "none", by |-> "none"]

RECURSIVE SortedSeq(_)
SortedSeq(S) ==
    IF S = {} THEN <<>>
    ELSE LET x == CHOOSE y \in S : \A z \in S : y <= z
         IN <<x>> \o SortedSeq(S \ {x})

GenPCs == {"gen_open", "gen_create", "gen_encode", "gen_store"}

Generating(p) == {r \in Reqs : pc[r] \in GenPCs /\ mid[r] = p}

\* ------------------------------------------------------------------ Init
\* The store holds the macros; the cache may hold files rendered by an earlier
\* run, whose Etags initialize() preloads.
CacheInit ==
    /\ macros = MacroIDs
    /\ file \in [MacroIDs -> {"absent", "complete"}]
    /\ age = [p \in MacroIDs |-> 0]
    /\ etags = [p \in MacroIDs |-> IF file[p] = "complete" THEN formatEtag(p) ELSE NoTag]
    /\ flight = [p \in MacroIDs |-> 0]
    /\ mu = FALSE
    /\ pc = [r \in Reqs |-> "idle"]
    /\ mid = [r \in Reqs |-> 1]
    /\ via = [r \in Reqs |-> "none"]
    /\ leader = [r \in Reqs |-> 0]
    /\ res = [r \in Reqs |-> "none"]
    /\ resp = [r \in Reqs |-> NoResp]
    /\ genCount = [p \in MacroIDs |-> 0]
    /\ removedBy = [p \in MacroIDs |-> "none"]
    /\ jpc = "select"
    /\ es = <<>>
    /\ cand = <<>>
    /\ totalSize = 0
    /\ oldAtScan = {}
    /\ tick = FALSE
    /\ cancelled = FALSE

\* No file is cached: the state of the cache while a render is looked at alone.
CacheIdle ==
    /\ CacheInit
    /\ \A p \in MacroIDs : file[p] = "absent"

\* No palette is being built.
PaletteIdle ==
    /\ quantized = <<>>
    /\ palette = [k \in Renders |-> <<>>]

\* No text line is being resolved.
LineIdle ==
    /\ frameCount = 0
    /\ line = NoLine
    /\ tf = NoFrames
    /\ resolved = <<>>

\* No GIF is being rendered.
GifIdle ==
    /\ nframes = 0
    /\ disposal = <<>>
    /\ limit = 0
    /\ started = 0
    /\ tpc = <<>>
    /\ backdrops = <<>>
    /\ backdropReady = <<>>
    /\ dst = <<>>
    /\ returned = FALSE

\* No text is being wrapped.
WrapIdle ==
    /\ imgHeight = 0
    /\ words = <<>>
    /\ wrapWidth = 0
    /\ fontSize = 0
    /\ nlines = 0
    /\ wpc = "idle"

\* The store while another part of the program is examined.
StoreIdle ==
    /\ dbTemplates = NoEntries
    /\ dbMacros = NoEntries
    /\ nextTemplateID = 1
    /\ nextMacroID = 1
    /\ cacheSeed = ""
    /\ adding = [u \in Users |-> NoUpload]
    /\ creating = NotFound

\* No colour is being parsed.
ColorIdle ==
    /\ text = ""
    /\ in1 = ZeroColor
    /\ in2 = ZeroColor
    /\ out = ""
    /\ cpc = "idle"

\* No Areas value is being encoded.
AreasIdle ==
    /\ areasIn = <<>>
    /\ form = "marshal"
    /\ areasJSON = <<>>
    /\ areasOut = <<>>
    /\ apc = "idle"

\* No page is being sliced.
PageIdle ==
    /\ vs = <<>>
    /\ page = -1
    /\ count = 1
    /\ pageItems = <<>>
    /\ isLast = FALSE
    /\ ppc = "idle"

\* No GIF is being laid out.
RectIdle ==
    /\ frameRects = <<>>
    /\ gifBounds = NoRect
    /\ drawn = <<>>

\* The macro cache is empty and nothing is generated.
DiskIdle ==
    /\ macroFiles = NoEntries
    /\ generating = NoGeneration

Init ==
    /\ CacheInit
    /\ closed = FALSE
    /\ DiskIdle
    /\ RectIdle
    /\ PageIdle
    /\ AreasIdle
    /\ ColorIdle
    /\ StoreIdle
    /\ WrapIdle
    /\ PaletteIdle
    /\ LineIdle
    /\ GifIdle

\* ------------------------------------------------- serveContentMacro
\* The singleflight call run by r has settled with result e: the key is
\* forgotten, and the caller that ran it answers or goes on to serve.
Settle(r, e) ==
    /\ res' = [res EXCEPT ![r] = e]
    /\ flight' = [flight EXCEPT ![mid[r]] = 0]
    /\ IF e = "ok"
       THEN /\ pc' = [pc EXCEPT ![r] = "serve"]
            /\ resp' = resp
       ELSE /\ pc' = [pc EXCEPT ![r] = "done"]
            /\ resp' = [resp EXCEPT ![r] = [NoResp EXCEPT !.code = "error", !.body = e]]

\* s.db.Macro(id) and s.db.CachePath(m), each under db.mu.
Lookup(r) ==
    /\ pc[r] = "idle"
    /\ ~mu
    /\ \E m \in MacroIDs :
         IF m \in macros
         THEN /\ mid' = [mid EXCEPT ![r] = m]
              /\ pc' = [pc EXCEPT ![r] = "stat"]
              /\ resp' = resp
         ELSE /\ mid' = mid
              /\ pc' = [pc EXCEPT ![r] = "done"]
              /\ resp' = [resp EXCEPT ![r] = [NoResp EXCEPT !.code = "nomacro"]]
    /\ UNCHANGED <<restVars, macros, file, age, etags, flight, mu, via, leader, res,
                   genCount, removedBy, janVars, tick, cancelled>>

\* StatCache without the return after serveFileCached: a hit falls through to
\* the singleflight call.
StatCache_NoReturn(r) ==
    /\ pc[r] = "stat"
    /\ via' = [via EXCEPT ![r] = IF file[mid[r]] # "absent" THEN "hit" ELSE @]
    /\ pc' = [pc EXCEPT ![r] = "do"]
    /\ UNCHANGED <<restVars, macros, file, age, etags, flight, mu, mid, leader, res, resp,
                   genCount, removedBy, janVars, tick, cancelled>>

\* os.Stat(cachePath): a hit goes straight to serveFileCached and returns.
StatCache(r) ==
    /\ pc[r] = "stat"
    /\ IF file[mid[r]] # "absent"
       THEN /\ via' = [via EXCEPT ![r] = "hit"]
            /\ pc' = [pc EXCEPT ![r] = "serve"]
       ELSE /\ via' = via
            /\ pc' = [pc EXCEPT ![r] = "do"]
    /\ UNCHANGED <<restVars, macros, file, age, etags, flight, mu, mid, leader, res, resp,
                   genCount, removedBy, janVars, tick, cancelled>>

\* SingleFlightDo without the deduplication: every caller runs fn.
SingleFlightDo_NoDedup(r) ==
    /\ pc[r] = "do"
    /\ flight' = [flight EXCEPT ![mid[r]] = r]
    /\ via' = [via EXCEPT ![r] = "leader"]
    /\ pc' = [pc EXCEPT ![r] = "gen_open"]
    /\ genCount' = [genCount EXCEPT ![mid[r]] = @ + 1]
    /\ UNCHANGED <<restVars, macros, file, age, etags, mu, mid, leader, res, resp,
                   removedBy, janVars, tick, cancelled>>

\* macroGenerationSingleFlight.Do(cachePath, fn): the first caller for a key
\* runs fn, a caller that finds a call in flight waits for its result.
SingleFlightDo(r) ==
    /\ pc[r] = "do"
    /\ IF flight[mid[r]] # 0
       THEN /\ leader' = [leader EXCEPT ![r] = flight[mid[r]]]
            /\ via' = [via EXCEPT ![r] = "waiter"]
            /\ pc' = [pc EXCEPT ![r] = "wait"]
            /\ UNCHANGED <<flight, genCount>>
       ELSE /\ flight' = [flight EXCEPT ![mid[r]] = r]
            /\ via' = [via EXCEPT ![r] = "leader"]
            /\ pc' = [pc EXCEPT ![r] = "gen_open"]
            /\ genCount' = [genCount EXCEPT ![mid[r]] = @ + 1]
            /\ leader' = leader
    /\ UNCHANGED <<restVars, macros, file, age, etags, mu, mid, res, resp,
                   removedBy, janVars, tick, cancelled>>

\* The errors generateMacro can return before it creates the destination:
\* reading the template (TemplatePath, os.Open, image.Decode / gif.DecodeAll)
\* and a GIF without frames.
EarlyErrors(m) == {"decode"} \cup (IF Ext(m) = ".gif" THEN {"noframes"} ELSE {})

\* GenOpen that creates the destination before it looks at the frame count.
GenOpen_LateFrameCheck(r) ==
    /\ pc[r] = "gen_open"
    /\ ~mu
    /\ \E e \in {"ok"} \cup EarlyErrors(mid[r]) :
         IF e = "ok"
         THEN /\ pc' = [pc EXCEPT ![r] = "gen_create"]
              /\ UNCHANGED <<res, flight, resp, file>>
         ELSE /\ Settle(r, e)
              /\ file' = [file EXCEPT ![mid[r]] = IF e = "noframes" THEN "partial" ELSE @]
    /\ UNCHANGED <<restVars, macros, age, etags, mu, mid, via, leader,
                   genCount, removedBy, janVars, tick, cancelled>>

\* generateMacro up to the render: TemplatePath (under db.mu), open, decode, draw.
GenOpen(r) ==
    /\ pc[r] = "gen_open"
    /\ ~mu
    /\ \E e \in {"ok"} \cup EarlyErrors(mid[r]) :
         IF e = "ok"
         THEN /\ pc' = [pc EXCEPT ![r] = "gen_create"]
              /\ UNCHANGED <<res, flight, resp>>
         ELSE Settle(r, e)
    /\ UNCHANGED <<restVars, macros, file, age, etags, mu, mid, via, leader,
                   genCount, removedBy, janVars, tick, cancelled>>

\* os.Create(cachePath): creates the file, or truncates the one that is there.
GenCreate(r) ==
    /\ pc[r] = "gen_create"
    /\ \E ok \in BOOLEAN :
         IF ok
         THEN /\ file' = [file EXCEPT ![mid[r]] = "partial"]
              /\ age' = [age EXCEPT ![mid[r]] = IF file[mid[r]] = "absent" THEN 0 ELSE @]
              /\ pc' = [pc EXCEPT ![r] = "gen_encode"]
              /\ UNCHANGED <<res, flight, resp>>
         ELSE /\ Settle(r, "create")
              /\ UNCHANGED <<file, age>>
    /\ UNCHANGED <<restVars, macros, etags, mu, mid, via, leader,
                   genCount, removedBy, janVars, tick, cancelled>>

\* The results of encoding into the file and closing it ("encode" stands for
\* an error of either).
EncodeResults(m) ==
    IF Ext(m) \in {".gif", ".jpg", ".jpeg", ".png"}
    THEN {"ok", "encode"}
    ELSE {"unknown extension"}

\* RemoveOnError without the os.Remove: the partial file stays.
RemoveOnError_Kept(st) == st

\* What the deferred function does with the destination when retErr # nil.
RemoveOnError(st) == "absent"

\* The encode, f.Close() and, on an error, the deferred f.Close and
\* os.Remove(cachePath).  A file unlinked while it was written stays unlinked.
GenEncode(r) ==
    /\ pc[r] = "gen_encode"
    /\ \E e \in EncodeResults(mid[r]) :
         IF e = "ok"
         THEN /\ file' = [file EXCEPT ![mid[r]] = IF @ = "partial" THEN "complete" ELSE @]
              /\ pc' = [pc EXCEPT ![r] = "gen_store"]
              /\ UNCHANGED <<res, flight, resp, removedBy, age>>
         ELSE /\ file' = [file EXCEPT ![mid[r]] = RemoveOnError(@)]
              /\ removedBy' = [removedBy EXCEPT ![mid[r]] =
                                 IF file'[mid[r]] # file[mid[r]] THEN "other" ELSE @]
              /\ age' = [age EXCEPT ![mid[r]] = IF file'[mid[r]] = "absent" THEN 0 ELSE @]
              /\ Settle(r, e)
    /\ UNCHANGED <<restVars, macros, etags, mu, mid, via, leader,
                   genCount, janVars, tick, cancelled>>

\* The deferred function when retErr = nil: imageFileEtags.Store, and the
\* singleflight call settles.
GenStore(r) ==
    /\ pc[r] = "gen_store"
    /\ etags' = [etags EXCEPT ![mid[r]] = formatEtag(mid[r])]
    /\ Settle(r, "ok")
    /\ UNCHANGED <<restVars, macros, file, age, mu, mid, via, leader,
                   genCount, removedBy, janVars, tick, cancelled>>

\* SharedResult that drops the call's error.
SharedResult_NoError(r) == "ok"

\* The result a deduplicated caller gets from the call it waited for.
SharedResult(r) == res[leader[r]]

\* A caller deduplicated onto a call in flight gets that call's result.
WaitDone(r) ==
    /\ pc[r] = "wait"
    /\ res[leader[r]] # "none"
    /\ res' = [res EXCEPT ![r] = SharedResult(r)]
    /\ IF res'[r] = "ok"
       THEN /\ pc' = [pc EXCEPT ![r] = "serve"]
            /\ resp' = resp
       ELSE /\ pc' = [pc EXCEPT ![r] = "done"]
            /\ resp' = [resp EXCEPT ![r] = [NoResp EXCEPT !.code = "error", !.body = res'[r]]]
    /\ UNCHANGED <<restVars, macros, file, age, etags, flight, mu, mid, via, leader,
                   genCount, removedBy, janVars, tick, cancelled>>

\* serveFileCached: the Etag header from imageFileEtags, then http.ServeFile,
\* which answers 404 when the file is gone and reads it (refreshing its access
\* time) otherwise.
ServeFileCached(r) ==
    /\ pc[r] = "serve"
    /\ pc' = [pc EXCEPT ![r] = "done"]
    /\ IF file[mid[r]] = "absent"
       THEN /\ resp' = [resp EXCEPT ![r] = [code |-> "notfound", etag |-> etags[mid[r]],
                                            body |-> "none", by |-> removedBy[mid[r]]]]
            /\ age' = age
       ELSE /\ resp' = [resp EXCEPT ![r] = [code |-> "served", etag |-> etags[mid[r]],
                                            body |-> file[mid[r]], by |-> "none"]]
            /\ age' = [age EXCEPT ![mid[r]] = 0]
    /\ UNCHANGED <<restVars, macros, file, etags, flight, mu, mid, via, leader, res,
                   genCount, removedBy, janVars, tick, cancelled>>

\* ------------------------------------------------------- store operations
\* DB.DeleteMacro(id), under db.mu.
DeleteMacro(m) ==
    /\ ~mu
    /\ m \in macros
    /\ macros' = macros \ {m}
    /\ file' = [file EXCEPT ![m] = "absent"]
    /\ age' = [age EXCEPT ![m] = 0]
    /\ removedBy' = [removedBy EXCEPT ![m] = IF file[m] # "absent" THEN "other" ELSE @]
    /\ UNCHANGED <<restVars, etags, flight, mu, reqVars, genCount, janVars, tick, cancelled>>

\* A file of the macros directory is deleted by hand.
ManualDelete(p) ==
    /\ file[p] # "absent"
    /\ file' = [file EXCEPT ![p] = "absent"]
    /\ age' = [age EXCEPT ![p] = 0]
    /\ removedBy' = [removedBy EXCEPT ![p] = "other"]
    /\ UNCHANGED <<restVars, macros, etags, flight, mu, reqVars, genCount, janVars, tick, cancelled>>

\* Time passes: every file's access age grows.
AdvanceTime ==
    /\ \E p \in MacroIDs : file[p] # "absent" /\ age[p] < AgeCap
    /\ age' = [p \in MacroIDs |->
                 IF file[p] = "absent" THEN 0
                 ELSE IF age[p] < AgeCap THEN age[p] + 1 ELSE age[p]]
    /\ UNCHANGED <<restVars, macros, file, etags, flight, mu, reqVars, genCount, removedBy,
                   janVars, tick, cancelled>>

\* ------------------------------------------------------- cleanMacroCache
\* The ticker's channel holds at most one tick.  A tick that fires while the
\* janitor scans waits in the channel for the next select, as if it fired when
\* the janitor got there: ticks are delivered at the select.
Tick ==
    /\ jpc = "select"
    /\ ~tick
    /\ tick' = TRUE
    /\ UNCHANGED <<restVars, macros, file, age, etags, flight, mu, reqVars, genCount, removedBy,
                   janVars, cancelled>>

\* db.stop(): the janitor's context is cancelled.
Cancel ==
    /\ ~cancelled
    /\ cancelled' = TRUE
    /\ UNCHANGED <<restVars, macros, file, age, etags, flight, mu, reqVars, genCount, removedBy,
                   janVars, tick>>

\* The loop's "continue": the tick's locals are dropped, back to the select.
BackToSelect ==
    /\ jpc' = "select"
    /\ es' = <<>>
    /\ cand' = <<>>
    /\ totalSize' = 0
    /\ oldAtScan' = {}

\* JanitorSelect without the return in the ctx.Done() case: it falls through
\* to the scan.
JanitorSelect_NoReturn ==
    /\ jpc = "select"
    /\ \/ /\ cancelled
          /\ tick' = tick
       \/ /\ tick
          /\ tick' = FALSE
    /\ jpc' = "readdir"
    /\ UNCHANGED <<restVars, macros, file, age, etags, flight, mu, reqVars, genCount, removedBy,
                   es, cand, totalSize, oldAtScan, cancelled>>

\* select { case <-ctx.Done(): return; case <-t.C: }.  When both are ready
\* the runtime takes either.
JanitorSelect ==
    /\ jpc = "select"
    /\ \/ /\ cancelled
          /\ jpc' = "exited"
          /\ tick' = tick
       \/ /\ tick
          /\ tick' = FALSE
          /\ jpc' = "readdir"
    /\ UNCHANGED <<restVars, macros, file, age, etags, flight, mu, reqVars, genCount, removedBy,
                   es, cand, totalSize, oldAtScan, cancelled>>

\* Phase 1: os.ReadDir(cacheDir), sorted by name; the directory may hold an
\* entry that is not a regular file.  An error goes back to the select.
JanitorReadDir ==
    /\ jpc = "readdir"
    /\ \/ BackToSelect
       \/ /\ \E nr \in BOOLEAN :
               es' = (IF nr THEN <<NonRegular>> ELSE <<>>)
                        \o SortedSeq({p \in MacroIDs : file[p] # "absent"})
          /\ jpc' = "scan"
          /\ UNCHANGED <<cand, totalSize, oldAtScan>>
    /\ UNCHANGED <<restVars, macros, file, age, etags, flight, mu, reqVars, genCount, removedBy,
                   tick, cancelled>>

\* IsCandidate that selects every file, whatever its age.
IsCandidate_Any(a) == TRUE

\* if age > db.maxAccessAge { cand = append(cand, path) }
IsCandidate(a) == a > maxAccessAge

\* Phase 2, first half of the loop body: skip what is not a regular file,
\* getAccessTime(path) (skip on error), and select the candidate.
JanitorScan ==
    /\ jpc = "scan"
    /\ es # <<>>
    /\ LET e == Head(es) IN
         IF e = NonRegular \/ file[e] = "absent"
         THEN /\ es' = Tail(es)
              /\ UNCHANGED <<jpc, cand, oldAtScan>>
         ELSE /\ cand' = IF IsCandidate(age[e]) THEN Append(cand, e) ELSE cand
              /\ oldAtScan' = IF age[e] > maxAccessAge THEN oldAtScan \cup {e} ELSE oldAtScan
              /\ jpc' = "info"
              /\ es' = es
    /\ UNCHANGED <<restVars, macros, file, age, etags, flight, mu, reqVars, genCount, removedBy,
                   totalSize, tick, cancelled>>

\* Phase 2, second half: fi, _ := e.Info(); totalSize += fi.Size().  Info
\* lstats the path; when the file is gone fi is nil and fi.Size() panics.
JanitorInfo ==
    /\ jpc = "info"
    /\ LET e == Head(es) IN
         IF file[e] = "absent"
         THEN /\ jpc' = "panicked"
              /\ UNCHANGED <<es, totalSize>>
         ELSE /\ totalSize' = totalSize + FileSize(e, file[e])
              /\ es' = Tail(es)
              /\ jpc' = "scan"
    /\ UNCHANGED <<restVars, macros, file, age, etags, flight, mu, reqVars, genCount, removedBy,
                   cand, oldAtScan, tick, cancelled>>

\* SkipEviction with < for <=: a cache of exactly minPruneBytes is pruned.
SkipEviction_Strict(total, cs) == total < minPruneBytes \/ Len(cs) = 0

\* if totalSize <= db.minPruneBytes || len(cand) == 0 { continue }
SkipEviction(total, cs) == total <= minPruneBytes \/ Len(cs) = 0

\* The end of the scan: go back to sleep, or take db.mu for phase 3.
JanitorDecide ==
    /\ jpc = "scan"
    /\ es = <<>>
    /\ IF SkipEviction(totalSize, cand)
       THEN /\ BackToSelect
            /\ mu' = mu
       ELSE /\ mu' = TRUE
            /\ jpc' = "remove"
            /\ UNCHANGED <<es, cand, totalSize, oldAtScan>>
    /\ UNCHANGED <<restVars, macros, file, age, etags, flight, reqVars, genCount, removedBy,
                   tick, cancelled>>

\* Phase 3: os.Remove of each candidate under db.mu (errors ignored), then
\* the unlock.
JanitorRemove ==
    /\ jpc = "remove"
    /\ IF cand # <<>>
       THEN LET p == Head(cand) IN
            /\ file' = [file EXCEPT ![p] = "absent"]
            /\ age' = [age EXCEPT ![p] = 0]
            /\ removedBy' = [removedBy EXCEPT ![p] = IF file[p] # "absent" THEN "janitor" ELSE @]
            /\ cand' = Tail(cand)
            /\ UNCHANGED <<mu, jpc, es, totalSize, oldAtScan>>
       ELSE /\ mu' = FALSE
            /\ BackToSelect
            /\ UNCHANGED <<file, age, removedBy>>
    /\ UNCHANGED <<restVars, macros, etags, flight, reqVars, genCount, tick, cancelled>>

\* ------------------------------------------------------------------ Next
\* The content handler under concurrent requests, with the deletions the
\* cache directory is open to at any time.
Next ==
    \/ \E r \in Reqs : Lookup(r)
    \/ \E r \in Reqs : StatCache(r)
    \/ \E r \in Reqs : SingleFlightDo(r)
    \/ \E r \in Reqs : GenOpen(r)
    \/ \E r \in Reqs : GenCreate(r)
    \/ \E r \in Reqs : GenEncode(r)
    \/ \E r \in Reqs : GenStore(r)
    \/ \E r \in Reqs : WaitDone(r)
    \/ \E r \in Reqs : ServeFileCached(r)
    \/ \E m \in MacroIDs : DeleteMacro(m)
    \/ \E p \in MacroIDs : ManualDelete(p)

Spec == Init /\ [][Next]_vars

\* The janitor with the clock, its ticker and its context, racing with
\* content requests and with deletions.
JanitorNext ==
    \/ \E r \in JanitorReqs : Lookup(r)
    \/ \E r \in JanitorReqs : StatCache(r)
    \/ \E r \in JanitorReqs : SingleFlightDo(r)
    \/ \E r \in JanitorReqs : GenOpen(r)
    \/ \E r \in JanitorReqs : GenCreate(r)
    \/ \E r \in JanitorReqs : GenEncode(r)
    \/ \E r \in JanitorReqs : GenStore(r)
    \/ \E r \in JanitorReqs : ServeFileCached(r)
    \/ \E m \in MacroIDs : DeleteMacro(m)
    \/ \E p \in MacroIDs : ManualDelete(p)
    \/ AdvanceTime
    \/ Tick
    \/ Cancel
    \/ JanitorSelect
    \/ JanitorReadDir
    \/ JanitorScan
    \/ JanitorInfo
    \/ JanitorDecide
    \/ JanitorRemove

JanitorSpec == Init /\ [][JanitorNext]_vars

\* ------------------------------------------------------------- DB.Close
\* Close after db.stop() (the Cancel step): db.tasks.Wait() returns once the
\* janitor's goroutine has run its deferred tasks.Done(), then db.mu is taken
\* and the index database is closed.
CloseReturn ==
    /\ cancelled
    /\ ~closed
    /\ jpc = "exited"
    /\ ~mu
    /\ closed' = TRUE
    /\ UNCHANGED outsideClose

\* A step of the janitor's goroutine.
JanitorStep ==
    \/ JanitorSelect
    \/ JanitorReadDir
    \/ JanitorScan
    \/ JanitorInfo
    \/ JanitorDecide
    \/ JanitorRemove

\* The store from New to Close: the janitor, the requests and deletions it
\* races with, and the return of Close.
CloseNext ==
    \/ JanitorNext
    \/ CloseReturn

CloseSpec == Init /\ [][CloseNext]_vars

\* ------------------------------------------------------ makeColorPalette
\* m[c]++ for every colour of every frame's quantized palette.
ColorCounts(imgs) ==
    [c \in Colors |-> Cardinality({i \in DOMAIN imgs : c \in imgs[i]})]

\* The orders in which a slice can hold the elements of S.
Orderings(S) ==
    {ps \in [1..Cardinality(S) -> S] : \A i, j \in DOMAIN ps : ps[i] = ps[j] => i = j}

\* if len(ps) > 256 { ps = ps[:256] }
Truncate(ps) == IF Len(ps) > paletteLimit THEN SubSeq(ps, 1, paletteLimit) ELSE ps

\* ps := maps.Keys(m); slices.SortFunc(ps, m[x] > m[y]): the keys come in the
\* map's iteration order, which the runtime randomizes, and the sort orders
\* them by count only, so colours of equal count end up in any order.
SortByCount(m, S) ==
    {ps \in Orderings(S) : \A i, j \in DOMAIN ps : i < j => m[ps[i]] >= m[ps[j]]}

\* The palettes makeColorPalette(imgs) can return.
makeColorPalette(imgs) ==
    LET m == ColorCounts(imgs)
    IN {Truncate(ps) : ps \in SortByCount(m, {c \in Colors : m[c] > 0})}

\* DrawGIF, phase 2, of render k: palette := makeColorPalette(frames).
BuildPalette(k) ==
    /\ quantized # <<>>
    /\ palette[k] = <<>>
    /\ \E ps \in makeColorPalette(quantized) : palette' = [palette EXCEPT ![k] = ps]
    /\ UNCHANGED <<outsidePalette, quantized>>

\* The frames rendered in phase 1, as quantize.Image sees them: each has at
\* least one colour.
PaletteInit ==
    /\ CacheIdle
    /\ closed = FALSE
    /\ DiskIdle
    /\ RectIdle
    /\ PageIdle
    /\ AreasIdle
    /\ ColorIdle
    /\ StoreIdle
    /\ WrapIdle
    /\ \E n \in 1..MaxPaletteFrames : quantized \in [1..n -> (SUBSET Colors) \ {{}}]
    /\ palette = [k \in Renders |-> <<>>]
    /\ LineIdle
    /\ GifIdle

PaletteNext == \E k \in Renders : BuildPalette(k)

\* Several renders of the same frames, each building the shared palette.
PaletteSpec == PaletteInit /\ [][PaletteNext]_vars

\* ------------------------------------------- text line frames (utils.go)
\* math.Ceil(a / b) for a >= 0, b > 0.
CeilDiv(a, b) == (a + b - 1) \div b

RECURSIVE GCD(_, _)
GCD(a, b) == IF b = 0 THEN a ELSE GCD(b, a % b)

\* The number n/d (n >= 0, d > 0) in lowest terms: a float64 coordinate.
Rat(n, d) == LET g == GCD(n, d) IN <<n \div g, d \div g>>

\* An area as area() returns it when it returns cur untouched.
Untouched(a) == [a EXCEPT !.X = Rat(a.X, 1), !.Y = Rat(a.Y, 1)]

\* newFrames with the start rounded down.
newFrames_Floor(fc, tl) ==
    [line |-> tl,
     framesPerArea |-> CeilDiv(fc, Len(tl.Field)),
     start |-> IF tl.Start > 0 THEN (tl.Start * fc) \div FracDen ELSE 0,
     end |-> IF tl.End > tl.Start THEN CeilDiv(tl.End * fc, FracDen) ELSE fc]

\* newFrames(frameCount, line)
newFrames(fc, tl) ==
    [line |-> tl,
     framesPerArea |-> CeilDiv(fc, Len(tl.Field)),
     start |-> IF tl.Start > 0 THEN CeilDiv(tl.Start * fc, FracDen) ELSE 0,
     end |-> IF tl.End > tl.Start THEN CeilDiv(tl.End * fc, FracDen) ELSE fc]

\* frames.visibleAt(i)
visibleAt(f, i) == f.start <= i /\ i <= f.end

\* frame with the areas applied cyclically frame by frame.
frame_Cyclic(f, i) ==
    IF Len(f.line.Field) = 1
    THEN [line |-> f.line, pos |-> 0, i |-> 0, fpa |-> 1]
    ELSE [line |-> f.line, pos |-> i % Len(f.line.Field), i |-> i, fpa |-> f.framesPerArea]

\* frames.frame(i)
frame(f, i) ==
    IF Len(f.line.Field) = 1
    THEN [line |-> f.line, pos |-> 0, i |-> 0, fpa |-> 1]
    ELSE [line |-> f.line, pos |-> (i \div f.framesPerArea) % Len(f.line.Field),
          i |-> i, fpa |-> f.framesPerArea]

\* area that copies the position only into a fresh Area.
area_PositionOnly(fr) ==
    LET cur == fr.line.Field[fr.pos + 1]
    IN [X |-> Rat(cur.X, 1), Y |-> Rat(cur.Y, 1), Tween |-> FALSE]

\* area that tweens into the band's area from the one before it.
area_TweenInto(fr) ==
    LET Field == fr.line.Field
        cur == Field[fr.pos + 1]
        rem == fr.i % fr.fpa
        prev == Field[((fr.pos + Len(Field) - 1) % Len(Field)) + 1]
    IN IF ~cur.Tween THEN Untouched(cur)
       ELSE [X |-> Rat(prev.X * fr.fpa + rem * (cur.X - prev.X), fr.fpa),
             Y |-> Rat(prev.Y * fr.fpa + rem * (cur.Y - prev.Y), fr.fpa),
             Tween |-> cur.Tween]

\* area that interpolates in a copy of the next area instead of cur.
area_InNext(fr) ==
    LET Field == fr.line.Field
        cur == Field[fr.pos + 1]
        rem == fr.i % fr.fpa
        npos == ((fr.i + fr.fpa) \div fr.fpa) % Len(Field)
        next == Field[npos + 1]
    IN IF ~cur.Tween \/ rem = 0 THEN Untouched(cur)
       ELSE [next EXCEPT !.X = Rat(cur.X * fr.fpa + rem * (next.X - cur.X), fr.fpa),
                         !.Y = Rat(cur.Y * fr.fpa + rem * (next.Y - cur.Y), fr.fpa)]

\* frame.area(): cur.X + rem * ((next.X - cur.X) / fpa), as an exact fraction.
area(fr) ==
    LET Field == fr.line.Field
        cur == Field[fr.pos + 1]
        rem == fr.i % fr.fpa
        npos == ((fr.i + fr.fpa) \div fr.fpa) % Len(Field)
        next == Field[npos + 1]
    IN IF ~cur.Tween \/ rem = 0 THEN Untouched(cur)
       ELSE [cur EXCEPT !.X = Rat(cur.X * fr.fpa + rem * (next.X - cur.X), fr.fpa),
                        !.Y = Rat(cur.Y * fr.fpa + rem * (next.Y - cur.Y), fr.fpa)]

\* tf := newFrames(len(img.Image), tl)
NewFrames ==
    /\ frameCount > 0
    /\ tf = NoFrames
    /\ tf' = newFrames(frameCount, line)
    /\ UNCHANGED <<outsideLine, frameCount, line, resolved>>

\* The next frame of the loop over the image's frames: tf.visibleAt(i),
\* tf.frame(i) and its area().
ResolveFrame ==
    /\ tf # NoFrames
    /\ Len(resolved) < frameCount
    /\ LET i == Len(resolved) IN
         resolved' = Append(resolved, [visible |-> visibleAt(tf, i),
                                       pos |-> frame(tf, i).pos,
                                       area |-> area(frame(tf, i))])
    /\ UNCHANGED <<outsideLine, frameCount, line, tf>>

\* An image of 1..MaxFrames frames and a valid text line.
LineInit ==
    /\ CacheIdle
    /\ closed = FALSE
    /\ DiskIdle
    /\ RectIdle
    /\ PageIdle
    /\ AreasIdle
    /\ ColorIdle
    /\ StoreIdle
    /\ WrapIdle
    /\ PaletteIdle
    /\ frameCount \in 1..MaxFrames
    /\ line \in TextLines
    /\ tf = NoFrames
    /\ resolved = <<>>
    /\ GifIdle

LineNext ==
    \/ NewFrames
    \/ ResolveFrame

\* A text line resolved on every frame of an image.
LineSpec == LineInit /\ [][LineNext]_vars

\* oneForZero(v), on a fraction
oneForZero(v) == IF v = Rat(0, 1) THEN Rat(1, 1) ELSE v

\* The box overlayTextOnImage wraps and anchors the text of frame tl in, in
\* units of bounds.Dx() and bounds.Dy().
overlayTextOnImage(fr) ==
    [width |-> oneForZero(Rat(fr.line.Field[1].Width, FracDen)),
     x |-> area(fr).X,
     y |-> area(fr).Y]

\* The text overlay of the next frame in DrawGIF's loop over the image's
\* frames: overlayTextOnImage(dc, f.frame(i), bounds) if f.visibleAt(i).
OverlayFrame ==
    /\ tf # NoFrames
    /\ Len(resolved) < frameCount
    /\ LET i == Len(resolved) IN
         resolved' = Append(resolved, [visible |-> visibleAt(tf, i),
                                       pos |-> frame(tf, i).pos,
                                       area |-> area(frame(tf, i)),
                                       box |-> overlayTextOnImage(frame(tf, i))])
    /\ UNCHANGED <<outsideLine, frameCount, line, tf>>

\* An image of 1..MaxFrames frames and a text line whose areas have widths.
OverlayInit ==
    /\ CacheIdle
    /\ closed = FALSE
    /\ DiskIdle
    /\ RectIdle
    /\ PageIdle
    /\ AreasIdle
    /\ ColorIdle
    /\ StoreIdle
    /\ WrapIdle
    /\ PaletteIdle
    /\ frameCount \in 1..MaxFrames
    /\ line \in OverlayLines
    /\ tf = NoFrames
    /\ resolved = <<>>
    /\ GifIdle

OverlayNext ==
    \/ NewFrames
    \/ OverlayFrame

\* A text line overlaid on every frame of an image.
OverlaySpec == OverlayInit /\ [][OverlayNext]_vars

\* image.Rect(x0, y0, x1, y1)
Rect(x0, y0, x1, y1) == [Min |-> [X |-> x0, Y |-> y0], Max |-> [X |-> x1, Y |-> y1]]

\* image.Rectangle{}
ZR == Rect(0, 0, 0, 0)

\* Rectangle.Empty
Empty(r) == r.Min.X >= r.Max.X \/ r.Min.Y >= r.Max.Y

\* Rectangle.Union
Union(r, s) ==
    IF Empty(r) THEN s
    ELSE IF Empty(s) THEN r
    ELSE Rect(IF r.Min.X > s.Min.X THEN s.Min.X ELSE r.Min.X,
              IF r.Min.Y > s.Min.Y THEN s.Min.Y ELSE r.Min.Y,
              IF r.Max.X < s.Max.X THEN s.Max.X ELSE r.Max.X,
              IF r.Max.Y < s.Max.Y THEN s.Max.Y ELSE r.Max.Y)

\* Rectangle.Intersect
Intersect(r, s) ==
    LET t == Rect(IF r.Min.X < s.Min.X THEN s.Min.X ELSE r.Min.X,
                  IF r.Min.Y < s.Min.Y THEN s.Min.Y ELSE r.Min.Y,
                  IF r.Max.X > s.Max.X THEN s.Max.X ELSE r.Max.X,
                  IF r.Max.Y > s.Max.Y THEN s.Max.Y ELSE r.Max.Y)
    IN IF Empty(t) THEN ZR ELSE t

\* Rectangle.Sub
Sub(r, p) == Rect(r.Min.X - p.X, r.Min.Y - p.Y, r.Max.X - p.X, r.Max.Y - p.Y)

\* Rectangle.In
In(r, s) ==
    \/ Empty(r)
    \/ /\ s.Min.X <= r.Min.X /\ r.Max.X <= s.Max.X
       /\ s.Min.Y <= r.Min.Y /\ r.Max.Y <= s.Max.Y

\* The union of the first n rectangles of rs, starting from the zero
\* Rectangle.
RECURSIVE UnionOf(_, _)
UnionOf(rs, n) == IF n = 0 THEN ZR ELSE Union(UnionOf(rs, n - 1), rs[n])

\* imageBounds(g), of the bounds of g's frames
imageBounds(rs) == LET b == UnionOf(rs, Len(rs)) IN Sub(b, b.Min)

\* bounds := imageBounds(srcGif)
ImageBounds ==
    /\ gifBounds = NoRect
    /\ gifBounds' = imageBounds(frameRects)
    /\ UNCHANGED <<outsideRect, frameRects, drawn>>

\* The task of frame i in phase 1: img := image.NewRGBA(bounds) and
\* draw.Draw(img, fb, frame, fb.Min, draw.Over), which draws the part of fb
\* that lies in img's bounds.
RenderFrame(i) ==
    /\ gifBounds # NoRect
    /\ drawn[i] = NoRect
    /\ drawn' = [drawn EXCEPT ![i] = Intersect(frameRects[i], gifBounds)]
    /\ UNCHANGED <<outsideRect, frameRects, gifBounds>>

\* The non-empty rectangles a frame of a GIF can have.
FrameRects ==
    {r \in {Rect(x0, y0, x1, y1) : x0 \in 0..MaxCoord, y0 \in 0..MaxCoord,
                                   x1 \in 0..MaxCoord, y1 \in 0..MaxCoord} : ~Empty(r)}

\* A GIF of 1..MaxRectFrames frames, each with its own rectangle.
RectInit ==
    /\ CacheIdle
    /\ closed = FALSE
    /\ DiskIdle
    /\ PageIdle
    /\ AreasIdle
    /\ ColorIdle
    /\ StoreIdle
    /\ WrapIdle
    /\ PaletteIdle
    /\ LineIdle
    /\ GifIdle
    /\ frameRects \in UNION {[1..n -> FrameRects] : n \in 1..MaxRectFrames}
    /\ gifBounds = NoRect
    /\ drawn = [i \in DOMAIN frameRects |-> NoRect]

RectNext ==
    \/ ImageBounds
    \/ \E i \in DOMAIN drawn : RenderFrame(i)

\* The frames of a GIF drawn into images of the GIF's bounds.
RectSpec == RectInit /\ [][RectNext]_vars

\* ------------------------------------------------------------- DrawGIF
\* Frames are numbered from 1: frame i of the model is img.Image[i-1].
Frames == 1..nframes

\* The tasks that hold a slot of the task group.
Active == {i \in Frames : tpc[i] \notin {"none", "done"}}

\* StartTask with the loop running from the last frame to the first.
StartTask_LastFirst ==
    /\ started < nframes
    /\ Cardinality(Active) < limit
    /\ started' = started + 1
    /\ tpc' = [tpc EXCEPT ![nframes - started] = "wait"]
    /\ UNCHANGED <<outsideGif, nframes, disposal, limit, backdrops, backdropReady, dst, returned>>

\* run.Run(func() {...}) of the loop's next frame: the start function blocks
\* while limit tasks are running.
StartTask ==
    /\ started < nframes
    /\ Cardinality(Active) < limit
    /\ started' = started + 1
    /\ tpc' = [tpc EXCEPT ![started + 1] = "wait"]
    /\ UNCHANGED <<outsideGif, nframes, disposal, limit, backdrops, backdropReady, dst, returned>>

\* BackdropReadyFor that does not block.
BackdropReadyFor_NoWait(i) == TRUE

\* <-backdropReady[i] can proceed: the channel is closed.
BackdropReadyFor(i) == backdropReady[i]

\* <-backdropReady[i]
AwaitBackdrop(i) ==
    /\ tpc[i] = "wait"
    /\ BackdropReadyFor(i)
    /\ tpc' = [tpc EXCEPT ![i] = "compose"]
    /\ UNCHANGED <<outsideGif, nframes, disposal, limit, started, backdrops, backdropReady, dst, returned>>

\* dst := image.NewPaletted(bounds, pal); copy(dst.Pix, backdrops[i].Pix);
\* draw.Draw(dst, fb, frame, fb.Min, draw.Over)
Compose(i) ==
    /\ tpc[i] = "compose"
    /\ dst' = [dst EXCEPT ![i] = Append(backdrops[i], i)]
    /\ tpc' = [tpc EXCEPT ![i] = IF i # nframes THEN "dispose" ELSE "text"]
    /\ UNCHANGED <<outsideGif, nframes, disposal, limit, started, backdrops, backdropReady, returned>>

\* NextBackdrop that restores the background after DisposalPrevious too.
NextBackdrop_Restore(d, first, cur, composed) ==
    IF d = DisposalNone THEN composed ELSE first

\* switch img.Disposal[i]: the backdrop of the next frame, from backdrops[0],
\* backdrops[i] and dst.
NextBackdrop(d, first, cur, composed) ==
    CASE d = DisposalBackground -> first
      [] d = DisposalPrevious -> cur
      [] d = DisposalNone -> composed
      [] OTHER -> first

\* The assignment to backdrops[i+1], for a frame that is not the last.
Dispose(i) ==
    /\ tpc[i] = "dispose"
    /\ backdrops' = [backdrops EXCEPT ![i + 1] =
                        NextBackdrop(disposal[i], backdrops[1], backdrops[i], dst[i])]
    /\ tpc' = [tpc EXCEPT ![i] = "signal"]
    /\ UNCHANGED <<outsideGif, nframes, disposal, limit, started, backdropReady, dst, returned>>

\* close(backdropReady[i+1])
Signal(i) ==
    /\ tpc[i] = "signal"
    /\ backdropReady' = [backdropReady EXCEPT ![i + 1] = TRUE]
    /\ tpc' = [tpc EXCEPT ![i] = "text"]
    /\ UNCHANGED <<outsideGif, nframes, disposal, limit, started, backdrops, dst, returned>>

\* The text overlay drawn over dst, and img.Image[i] = dst; the task ends.
DrawText(i) ==
    /\ tpc[i] = "text"
    /\ dst' = [dst EXCEPT ![i] = Append(@, 0 - i)]
    /\ tpc' = [tpc EXCEPT ![i] = "done"]
    /\ UNCHANGED <<outsideGif, nframes, disposal, limit, started, backdrops, backdropReady, returned>>

\* g.Wait() returns when every task has ended.
Wait ==
    /\ started = nframes
    /\ Active = {}
    /\ ~returned
    /\ returned' = TRUE
    /\ UNCHANGED <<outsideGif, nframes, disposal, limit, started, tpc, backdrops, backdropReady, dst>>

\* DrawGIF up to the task group: a GIF of 1..MaxFrames frames with any
\* disposal methods, backdrops[0] drawn in the background colour and
\* backdropReady[0] closed.
GifInit ==
    /\ CacheIdle
    /\ closed = FALSE
    /\ DiskIdle
    /\ RectIdle
    /\ PageIdle
    /\ AreasIdle
    /\ ColorIdle
    /\ StoreIdle
    /\ WrapIdle
    /\ PaletteIdle
    /\ LineIdle
    /\ nframes \in 1..MaxFrames
    /\ disposal \in [1..nframes -> Disposals]
    /\ limit \in 1..MaxWorkers
    /\ started = 0
    /\ tpc = [i \in 1..nframes |-> "none"]
    /\ backdrops = [i \in 1..nframes |-> IF i = 1 THEN Background ELSE Unset]
    /\ backdropReady = [i \in 1..nframes |-> i = 1]
    /\ dst = [i \in 1..nframes |-> Unset]
    /\ returned = FALSE

GifNext ==
    \/ StartTask
    \/ \E i \in Frames : AwaitBackdrop(i)
    \/ \E i \in Frames : Compose(i)
    \/ \E i \in Frames : Dispose(i)
    \/ \E i \in Frames : Signal(i)
    \/ \E i \in Frames : DrawText(i)
    \/ Wait

\* One render of a GIF by the frame tasks of DrawGIF.
GifSpec == GifInit /\ [][GifNext]_vars

\* The render with the scheduler running some goroutine that can take a step:
\* the loop that starts the tasks, a frame task, or the caller in g.Wait().
GifFairSpec == GifInit /\ [][GifNext]_vars /\ WF_vars(GifNext)

\* -------------------------------------------------- overlayTextOnImage
\* fontSizeForImage: int(math.Round(Dy * 0.75 * 0.15)), rounding half up.
fontSizeForImage(h) == (h * 1125 + 5000) \div 10000

\* The width in pixels of a word of n characters, and of a space, at font
\* size fs: the advance of a character grows with the size.
MeasureString(n, fs) == n * fs

\* dc.WordWrap(text, width): words are put on the current line while they
\* fit; a word wider than the width gets a line of its own.  The number of
\* lines, given the words left and the width cw used on the current line.
RECURSIVE WrapFrom(_, _, _, _)
WrapFrom(ws, cw, fs, width) ==
    IF ws = <<>> THEN (IF cw > 0 THEN 1 ELSE 0)
    ELSE LET w == MeasureString(Head(ws), fs) IN
         IF cw = 0
         THEN IF w > width THEN 1 + WrapFrom(Tail(ws), 0, fs, width)
              ELSE WrapFrom(Tail(ws), w, fs, width)
         ELSE IF cw + MeasureString(1, fs) + w > width
              THEN 1 + WrapFrom(ws, 0, fs, width)
              ELSE WrapFrom(Tail(ws), cw + MeasureString(1, fs) + w, fs, width)

WordWrap(ws, fs, width) == WrapFrom(ws, 0, fs, width)

\* KeepShrinking without the floor.
KeepShrinking_NoFloor(n, fs) == n > maxWrappedLines

\* for len(lines) > 2 && fontSize > 6
KeepShrinking(n, fs) == n > maxWrappedLines /\ fs > minFontSize

\* fontSize := fontSizeForImage(bounds); lines := dc.WordWrap(text, width)
WrapFirst ==
    /\ wpc = "start"
    /\ fontSize' = fontSizeForImage(imgHeight)
    /\ nlines' = WordWrap(words, fontSize', wrapWidth)
    /\ wpc' = "loop"
    /\ UNCHANGED <<outsideWrap, imgHeight, words, wrapWidth>>

\* The loop body: fontSize--, the font face, lines = dc.WordWrap(text, width).
Shrink ==
    /\ wpc = "loop"
    /\ KeepShrinking(nlines, fontSize)
    /\ fontSize' = fontSize - 1
    /\ nlines' = WordWrap(words, fontSize', wrapWidth)
    /\ UNCHANGED <<outsideWrap, imgHeight, words, wrapWidth, wpc>>

\* The loop ends and the lines are drawn.
DrawLines ==
    /\ wpc = "loop"
    /\ ~KeepShrinking(nlines, fontSize)
    /\ wpc' = "drawn"
    /\ UNCHANGED <<outsideWrap, imgHeight, words, wrapWidth, fontSize, nlines>>

\* A text of 1..MaxWords words to draw on an image, in an area of some width.
WrapInit ==
    /\ CacheIdle
    /\ closed = FALSE
    /\ DiskIdle
    /\ RectIdle
    /\ PageIdle
    /\ AreasIdle
    /\ ColorIdle
    /\ StoreIdle
    /\ PaletteIdle
    /\ LineIdle
    /\ GifIdle
    /\ imgHeight \in Heights
    /\ words \in Texts
    /\ wrapWidth \in WrapWidths
    /\ fontSize = 0
    /\ nlines = 0
    /\ wpc = "start"

WrapNext ==
    \/ WrapFirst
    \/ Shrink
    \/ DrawLines

\* overlayTextOnImage up to the drawing; the function runs on its own
\* goroutine and takes its steps as long as it has one to take.
WrapSpec == WrapInit /\ [][WrapNext]_vars /\ WF_vars(WrapNext)

\* ----------------------------------------------------------------- store
\* strconv.Itoa, as the %d verb of fmt.Sprintf prints an ID.
Digits == <<"0", "1", "2", "3", "4", "5", "6", "7", "8", "9">>

RECURSIVE Itoa(_)
Itoa(n) == IF n < 10 THEN Digits[n + 1] ELSE Itoa(n \div 10) \o Digits[(n % 10) + 1]

\* filepath.Ext(path): the suffix from the last dot of the last path element.
PathExt(path) ==
    LET dots == {i \in 1..Len(path) :
                    /\ SubSeq(path, i, i) = "."
                    /\ \A j \in i..Len(path) : SubSeq(path, j, j) # "/"}
    IN IF dots = {} THEN ""
       ELSE SubSeq(path, CHOOSE i \in dots : \A j \in dots : j <= i, Len(path))

\* The extension a template is uploaded with: none, which stands for png.
FileExts == {""}
\* strings.TrimPrefix(fileExt, ".") of AddTemplate, with its default.
TrimExt(fileExt) == IF fileExt = "" THEN "png" ELSE SubSeq(fileExt, 2, Len(fileExt))

\* The text lines a request for a new macro carries: one that ValidForCreate
\* accepts, one without text, one without areas, one that starts after the
\* end of the animation.
Corner == [X |-> 0, Y |-> 0, Tween |-> FALSE]
GoodLine == [Text |-> "x", Field |-> <<Corner>>, Start |-> 0, End |-> FracDen]
StoreLines ==
    {GoodLine,
     [GoodLine EXCEPT !.Text = ""],
     [GoodLine EXCEPT !.Field = <<>>],
     [GoodLine EXCEPT !.Start = 2 * FracDen]}
\* The overlays of a request: no line or one line.
Overlays == {<<>>} \cup {<<l>> : l \in StoreLines}
\* The macros a caller passes: Nil tells a nil TextOverlay from an empty one.
MacroInputs ==
    {m \in [ID : {0, 1}, TemplateID : 0..(MaxStoreTemplates + 1),
            Nil : BOOLEAN, TextOverlay : Overlays] :
        m.Nil => m.TextOverlay = <<>>}

\* Area.ValidForCreate: the coordinates are within [0, 1], in thirds here.
AreaValidForCreate(a) == ~(a.X < 0 \/ a.X > 3) /\ ~(a.Y < 0 \/ a.Y > 3)

\* TextLine.ValidForCreate
TextLineValidForCreate(t) ==
    /\ t.Text # ""
    /\ Len(t.Field) # 0
    /\ ~(t.Start < 0 \/ t.Start > FracDen)
    /\ ~(t.End < 0 \/ t.End > FracDen)
    /\ \A k \in 1..Len(t.Field) : AreaValidForCreate(t.Field[k])

\* Macro.ValidForCreate, of a macro without votes, creator and context links.
MacroValidForCreate(m) ==
    /\ m.ID = 0
    /\ ~(m.TemplateID <= 0)
    /\ Len(m.TextOverlay) # 0
    /\ \A k \in 1..Len(m.TextOverlay) : TextLineValidForCreate(m.TextOverlay[k])

\* db.Templates(): the IDs of the templates listed, in order.
Templates == SortedSeq({id \in DOMAIN dbTemplates : ~dbTemplates[id].Hidden})

\* db.TemplatesByCreator(creator)
TemplatesByCreator(creator) ==
    SortedSeq({id \in DOMAIN dbTemplates :
                  ~dbTemplates[id].Hidden /\ dbTemplates[id].Creator = creator})

\* Template that finds hidden templates too.
Template_ShowsHidden(id) == IF id \notin DOMAIN dbTemplates THEN NotFound ELSE id

\* db.Template(id): the ID found, or NotFound.
Template(id) ==
    IF id \notin DOMAIN dbTemplates \/ dbTemplates[id].Hidden THEN NotFound ELSE id

\* db.AnyTemplate(id)
AnyTemplate(id) == IF id \notin DOMAIN dbTemplates THEN NotFound ELSE id

\* db.TemplateByName(name): the templates the loop over db.templates may
\* return; none when the lookup fails.
TemplateByName(cn) ==
    {id \in DOMAIN dbTemplates : ~dbTemplates[id].Hidden /\ dbTemplates[id].Name = cn}

\* db.TemplatePath(id): the path, or the empty string with an error.
TemplatePath(id) == IF id \notin DOMAIN dbTemplates THEN "" ELSE dbTemplates[id].Path

\* db.cachePath(m, t) under the cache seed given.
cachePath(seed, m, t) ==
    LET key == IF seed = "" THEN "0000" ELSE seed
    IN "macros/" \o key \o "-" \o Itoa(m.ID) \o PathExt(t.Path)

\* db.CachePath(m): the path, or the empty string with an error.
CachePath(m) ==
    IF AnyTemplate(m.TemplateID) = NotFound THEN ""
    ELSE cachePath(cacheSeed, m, dbTemplates[m.TemplateID])

\* f with the entry of id set to v, as db.templates[id] = v.
Put(f, id, v) == [i \in DOMAIN f \cup {id} |-> IF i = id THEN v ELSE f[i]]

\* f without the entry of id, as delete(db.macros, id).
Drop(f, id) == [i \in DOMAIN f \ {id} |-> f[i]]

\* db.AddTemplate up to its name check, which db.TemplateByName makes under
\* a lock it releases before AddTemplate takes the lock again.
AddTemplateCheck(u, name) ==
    /\ adding[u] = NoUpload
    /\ nextTemplateID <= MaxStoreTemplates
    /\ TemplateByName(name) = {}
    /\ adding' = [adding EXCEPT ![u] = name]
    /\ UNCHANGED <<outsideStore, diskVars, dbTemplates, dbMacros, nextTemplateID, nextMacroID,
                   cacheSeed, creating>>

\* db.AddTemplate from db.mu.Lock() on: the file is written and the template
\* stored under the next ID.
AddTemplateStore(u, fileExt) ==
    /\ adding[u] # NoUpload
    /\ nextTemplateID <= MaxStoreTemplates
    /\ LET id == nextTemplateID
           path == "templates/" \o Itoa(id) \o "." \o TrimExt(fileExt)
       IN dbTemplates' = Put(dbTemplates, id,
                             [ID |-> id, Name |-> adding[u], Creator |-> u,
                              Hidden |-> FALSE, Path |-> path])
    /\ nextTemplateID' = nextTemplateID + 1
    /\ adding' = [adding EXCEPT ![u] = NoUpload]
    /\ UNCHANGED <<outsideStore, diskVars, dbMacros, nextMacroID, cacheSeed, creating>>

\* db.AddTemplate from db.mu.Lock() on, when writing the file fails.
AddTemplateFail(u) ==
    /\ adding[u] # NoUpload
    /\ adding' = [adding EXCEPT ![u] = NoUpload]
    /\ UNCHANGED <<outsideStore, diskVars, dbTemplates, dbMacros, nextTemplateID, nextMacroID,
                   cacheSeed, creating>>

\* db.SetTemplateHidden(id, hidden)
SetTemplateHidden(id, hidden) ==
    /\ id \in DOMAIN dbTemplates
    /\ dbTemplates' = [dbTemplates EXCEPT ![id].Hidden = hidden]
    /\ UNCHANGED <<outsideStore, diskVars, dbMacros, nextTemplateID, nextMacroID, cacheSeed,
                   adding, creating>>

\* What db.AddMacro(m) does to db.macros and db.nextMacroID.
AddMacroLocked(m) ==
    /\ m.ID = 0
    /\ m.TemplateID # 0
    /\ ~m.Nil
    /\ nextMacroID <= MaxStoreMacros
    /\ dbMacros' = Put(dbMacros, nextMacroID, [m EXCEPT !.ID = nextMacroID])
    /\ nextMacroID' = nextMacroID + 1

\* db.AddMacro(m), called on the store.
AddMacro(m) ==
    /\ AddMacroLocked(m)
    /\ UNCHANGED <<outsideStore, diskVars, dbTemplates, nextTemplateID, cacheSeed, adding,
                   creating>>

\* serveAPIMacroPost: POST /api/macro with the macro m as its body.
serveAPIMacroPost(m) ==
    /\ MacroValidForCreate(m)
    /\ AddMacroLocked(m)
    /\ UNCHANGED <<outsideStore, diskVars, dbTemplates, nextTemplateID, cacheSeed, adding,
                   creating>>

\* serveUICreate: /create/<id> looks the template up before it dispatches on
\* the method of the request.
serveUICreate(id) ==
    /\ creating = NotFound
    /\ Template(id) # NotFound
    /\ creating' = id
    /\ UNCHANGED <<outsideStore, diskVars, dbTemplates, dbMacros, nextTemplateID, nextMacroID,
                   cacheSeed, adding>>

\* The overlays serveUICreatePost accepts.
UIOverlaysAccepted(overlays) ==
    /\ Len(overlays) # 0
    /\ \A k \in 1..Len(overlays) : overlays[k].Text # ""

\* serveUICreatePost: the POST of the create page with the overlays of its
\* body, for the template serveUICreate found.
serveUICreatePost(overlays) ==
    /\ creating # NotFound
    /\ creating' = NotFound
    /\ IF UIOverlaysAccepted(overlays)
       THEN AddMacroLocked([ID |-> 0, TemplateID |-> creating, Nil |-> FALSE,
                            TextOverlay |-> overlays])
       ELSE UNCHANGED <<dbMacros, nextMacroID>>
    /\ UNCHANGED <<outsideStore, diskVars, dbTemplates, nextTemplateID, cacheSeed, adding>>

\* db.DeleteMacro(id), on db.macros.
StoreDeleteMacro(id) ==
    /\ id \in DOMAIN dbMacros
    /\ macroFiles' = IF dbMacros[id].TemplateID \in DOMAIN dbTemplates
                     THEN Drop(macroFiles, CachePath(dbMacros[id]))
                     ELSE macroFiles
    /\ dbMacros' = Drop(dbMacros, id)
    /\ UNCHANGED <<outsideStore, generating, dbTemplates, nextTemplateID, nextMacroID,
                   cacheSeed, adding, creating>>

\* What memedraw.Draw does with a text line: newFrames(1, tl).frame(0), which
\* divides by len(tl.Field) unless that is 1.
DrawLine(tl) ==
    IF Len(tl.Field) = 0 THEN "panic"
    ELSE IF frame(newFrames(1, tl), 0).pos < Len(tl.Field) THEN "ok" ELSE "panic"

\* What serveContentMacro gives for the macro m when it is not cached: an
\* error when db.CachePath or db.TemplatePath fails, else what memedraw.Draw
\* does with its text lines.
RenderOutcome(m) ==
    IF TemplatePath(m.TemplateID) = "" \/ CachePath(m) = "" THEN "error"
    ELSE IF \E k \in 1..Len(m.TextOverlay) : DrawLine(m.TextOverlay[k]) = "panic"
         THEN "panic" ELSE "ok"

StoreInit ==
    /\ CacheIdle
    /\ closed = FALSE
    /\ DiskIdle
    /\ RectIdle
    /\ PageIdle
    /\ AreasIdle
    /\ ColorIdle
    /\ WrapIdle
    /\ PaletteIdle
    /\ LineIdle
    /\ GifIdle
    /\ StoreIdle

\* The steps of the server: its handlers and the uploads they start.
ServerNext ==
    \/ \E u \in Users, name \in Names : AddTemplateCheck(u, name)
    \/ \E u \in Users, e \in FileExts : AddTemplateStore(u, e)
    \/ \E u \in Users : AddTemplateFail(u)
    \/ \E id \in 1..MaxStoreTemplates, h \in BOOLEAN : SetTemplateHidden(id, h)
    \/ \E m \in MacroInputs : serveAPIMacroPost(m)
    \/ \E id \in 1..MaxStoreTemplates : serveUICreate(id)
    \/ \E o \in Overlays : serveUICreatePost(o)
    \/ \E id \in 1..MaxStoreMacros : StoreDeleteMacro(id)

\* The store behind the server: every macro comes through a handler.
ServerSpec == StoreInit /\ [][ServerNext]_vars

\* db.SetCacheSeed(s): a no-op for the seed already set.
SetCacheSeed(s) ==
    /\ s # cacheSeed
    /\ cacheSeed' = s
    /\ UNCHANGED <<outsideStore, diskVars, dbTemplates, dbMacros, nextTemplateID, nextMacroID,
                   adding, creating>>

SeedNext ==
    \/ ServerNext
    \/ \E s \in Seeds : SetCacheSeed(s)

\* The server of a store whose cache seed is set anew.
SeedSpec == StoreInit /\ [][SeedNext]_vars

StoreNext ==
    \/ ServerNext
    \/ \E m \in MacroInputs : AddMacro(m)

\* The store under the calls of the handlers and of its callers.
StoreSpec == StoreInit /\ [][StoreNext]_vars

\* What generateMacro renders for the macro m: the overlay of m drawn on the
\* image of m's template.
Rendering(m) == <<m.TemplateID, m.TextOverlay>>

\* serveContentMacro for a macro that is not cached, up to the rendering in
\* generateMacro: the macro and the cache path are those found by the lookup.
GenerateStart(id) ==
    /\ generating = NoGeneration
    /\ id \in DOMAIN dbMacros
    /\ RenderOutcome(dbMacros[id]) = "ok"
    /\ CachePath(dbMacros[id]) \notin DOMAIN macroFiles
    /\ generating' = [path |-> CachePath(dbMacros[id]), image |-> Rendering(dbMacros[id])]
    /\ UNCHANGED <<outsideStore, storeVars, macroFiles>>

\* generateMacro writes the rendering to the cache path and returns.
GenerateFinish ==
    /\ generating # NoGeneration
    /\ macroFiles' = Put(macroFiles, generating.path, generating.image)
    /\ generating' = NoGeneration
    /\ UNCHANGED <<outsideStore, storeVars>>

\* The largest key of the index f, 0 for an empty one.
MaxID(f) == IF DOMAIN f = {} THEN 0 ELSE CHOOSE i \in DOMAIN f : \A j \in DOMAIN f : j <= i

\* loadMacrosLocked: db.nextMacroID after the macros are loaded.
loadMacrosLocked == MaxID(dbMacros) + 1

\* loadTemplatesLocked: db.nextTemplateID after the templates are loaded.
loadTemplatesLocked == MaxID(dbTemplates) + 1

\* db.Close() and store.New on the same directory, with no request being
\* served: loadSQLiteIndex reads the macros, the templates and the cache seed
\* back from the index and recomputes the next IDs; the files stay.
Reopen ==
    /\ \A u \in Users : adding[u] = NoUpload
    /\ creating = NotFound
    /\ generating = NoGeneration
    /\ nextMacroID' = loadMacrosLocked
    /\ nextTemplateID' = loadTemplatesLocked
    /\ UNCHANGED <<outsideStore, diskVars, dbTemplates, dbMacros, cacheSeed, adding, creating>>

ReopenNext ==
    \/ \E u \in Users, name \in Names : AddTemplateCheck(u, name)
    \/ \E u \in Users, e \in FileExts : AddTemplateStore(u, e)
    \/ \E m \in MacroInputs : serveAPIMacroPost(m)
    \/ \E id \in 1..MaxStoreMacros : StoreDeleteMacro(id)
    \/ \E id \in 1..MaxStoreMacros : GenerateStart(id)
    \/ GenerateFinish
    \/ Reopen

\* The server with its macro cache, closed and opened again at any time no
\* request is being served.
ReopenSpec == StoreInit /\ [][ReopenNext]_vars

\* ---------------------------------------------------------------- Color
\* The value of the hex digit ch as the %x verb of fmt.Sscanf reads it, or -1.
HexValue(ch) ==
    LET lower == "0123456789abcdef"
        upper == "0123456789ABCDEF"
        found == {i \in 0..15 : SubSeq(lower, i + 1, i + 1) = ch
                                \/ SubSeq(upper, i + 1, i + 1) = ch}
    IN IF found = {} THEN -1 ELSE CHOOSE i \in found : TRUE

\* The byte fmt.Sscanf reads from the w hex digits of p that start at i, or
\* -1 when one of them is no hex digit.
ScanHex(p, i, w) ==
    IF \E k \in 0..(w - 1) : HexValue(SubSeq(p, i + k, i + k)) = -1 THEN -1
    ELSE IF w = 1 THEN HexValue(SubSeq(p, i, i))
    ELSE 16 * HexValue(SubSeq(p, i, i)) + HexValue(SubSeq(p, i + 1, i + 1))

\* r |= r << 4 on the byte of one hex digit: the two halves do not overlap.
Spread(r) == r + 16 * r

\* float64(b) / 255
Channel(b) == Rat(b, 255)

\* Color.UnmarshalText(data) on the Color c: the error and the value of c
\* after the call.
UnmarshalText(c, data) ==
    IF Len(data) = 0 THEN [err |-> FALSE, c |-> <<<<1, 1>>, <<1, 1>>, <<1, 1>>>>]
    ELSE
    LET named == IF data \in DOMAIN n2c THEN n2c[data] ELSE data
        p == IF SubSeq(named, 1, 1) = "#" THEN SubSeq(named, 2, Len(named)) ELSE named
        w == IF Len(p) = 3 THEN 1 ELSE 2
        r == ScanHex(p, 1, w)
        g == ScanHex(p, 1 + w, w)
        b == ScanHex(p, 1 + 2 * w, w)
    IN IF Len(p) \notin {3, 6} \/ r = -1 \/ g = -1 \/ b = -1
       THEN [err |-> TRUE, c |-> c]
       ELSE IF w = 1
            THEN [err |-> FALSE,
                  c |-> <<Channel(Spread(r)), Channel(Spread(g)), Channel(Spread(b))>>]
            ELSE [err |-> FALSE, c |-> <<Channel(r), Channel(g), Channel(b)>>]

\* byte(x * 255) of a channel x within [0, 1].
ChannelByte(x) == (x[1] * 255) \div x[2]

\* The %02x verb of fmt.Sprintf on a byte.
Hex2(b) ==
    LET lower == "0123456789abcdef"
    IN SubSeq(lower, (b \div 16) + 1, (b \div 16) + 1) \o SubSeq(lower, (b % 16) + 1, (b % 16) + 1)

\* fmt.Sprintf("#%02x%02x%02x", ...) of Color.MarshalText
HexString(c) == "#" \o Hex2(ChannelByte(c[1])) \o Hex2(ChannelByte(c[2])) \o Hex2(ChannelByte(c[3]))

\* MarshalText that never looks a name up.
MarshalText_HexOnly(c) == {HexString(c)}

\* Color.MarshalText(): the texts it may give. init fills c2n from n2c in the
\* order the map is ranged over, so that a hex string is mapped to any one of
\* its names.
MarshalText(c) ==
    LET names == {n \in DOMAIN n2c : n2c[n] = HexString(c)}
    IN IF names = {} THEN {HexString(c)} ELSE names

\* in1.UnmarshalText([]byte(text))
ParseText ==
    /\ cpc = "start"
    /\ LET u == UnmarshalText(in1, text)
       IN /\ in1' = u.c
          /\ cpc' = IF u.err THEN "error" ELSE "in1"
    /\ UNCHANGED <<outsideColor, text, in2, out>>

\* in2.UnmarshalText of the hex string of a name, or of the text again.
ParseHex ==
    /\ cpc = "in1"
    /\ LET u == UnmarshalText(in2, IF text \in DOMAIN n2c THEN n2c[text] ELSE text)
       IN /\ in2' = u.c
          /\ cpc' = IF u.err THEN "error" ELSE "in2"
    /\ UNCHANGED <<outsideColor, text, in1, out>>

\* out, err := in1.MarshalText()
Marshal ==
    /\ cpc = "in2"
    /\ out' \in MarshalText(in1)
    /\ cpc' = "out"
    /\ UNCHANGED <<outsideColor, text, in1, in2>>

ColorInit ==
    /\ CacheIdle
    /\ closed = FALSE
    /\ DiskIdle
    /\ RectIdle
    /\ PageIdle
    /\ AreasIdle
    /\ WrapIdle
    /\ StoreIdle
    /\ PaletteIdle
    /\ LineIdle
    /\ GifIdle
    /\ text \in ColorTexts
    /\ in1 = ZeroColor
    /\ in2 = ZeroColor
    /\ out = ""
    /\ cpc = "start"

ColorNext ==
    \/ ParseText
    \/ ParseHex
    \/ Marshal

\* A text parsed as a Color and marshalled again.
ColorSpec == ColorInit /\ [][ColorNext]_vars

\* ----------------------------------------------------------------- Areas
\* A JSON text is the sequence of its tokens. The number n as encoding/json
\* writes it.
Num(n) == IF n < 0 THEN "-" \o Itoa(-n) ELSE Itoa(n)

\* The digits of s from position i on, read as a decimal number after acc.
RECURSIVE AtoiFrom(_, _, _)
AtoiFrom(s, i, acc) ==
    IF i > Len(s) THEN acc
    ELSE AtoiFrom(s, i + 1,
                  10 * acc + (CHOOSE d \in 0..9 : Digits[d + 1] = SubSeq(s, i, i)))

\* The token is a number literal: an optional sign and digits.
IsNumber(tok) ==
    LET from == IF SubSeq(tok, 1, 1) = "-" THEN 2 ELSE 1
    IN /\ from <= Len(tok)
       /\ \A i \in from..Len(tok) : \E d \in 0..9 : Digits[d + 1] = SubSeq(tok, i, i)

\* The number a literal stands for.
ParseNumber(tok) ==
    IF SubSeq(tok, 1, 1) = "-" THEN 0 - AtoiFrom(tok, 2, 0) ELSE AtoiFrom(tok, 1, 0)

\* json.Marshal(Area): x and y always, width and tween unless zero; extra is
\* written in front of the members of the struct.
MarshalArea(a, extra) ==
    <<"{">> \o extra \o <<"\"x\"", ":", Num(a.X), ",", "\"y\"", ":", Num(a.Y)>>
    \o (IF a.Width # 0 THEN <<",", "\"width\"", ":", Num(a.Width)>> ELSE <<>>)
    \o (IF a.Tween THEN <<",", "\"tween\"", ":", "true">> ELSE <<>>)
    \o <<"}">>

\* The elements of a from the k-th on, separated by commas.
RECURSIVE Elems(_, _, _)
Elems(a, k, extra) ==
    IF k > Len(a) THEN <<>>
    ELSE MarshalArea(a[k], extra) \o (IF k < Len(a) THEN <<",">> ELSE <<>>)
         \o Elems(a, k + 1, extra)

\* json.Marshal of a slice of Area values.
MarshalSlice(a, extra) == <<"[">> \o Elems(a, 1, extra) \o <<"]">>

\* MarshalJSON that writes every Areas value as an array.
MarshalJSON_AlwaysArray(a) == MarshalSlice(a, <<>>)

\* Areas.MarshalJSON
MarshalJSON(a) ==
    IF Len(a) = 1 THEN MarshalArea(a[1], <<>>) ELSE MarshalSlice(a, <<>>)

\* A text that does not parse.
Malformed == [ok |-> FALSE, v |-> ZeroArea, next |-> 0]

\* The Area ar with the member key set from the token val: a member that names
\* no field is skipped, a value of the wrong type is an error.
SetMember(ar, key, val) ==
    IF key \in {"\"x\"", "\"y\"", "\"width\""}
    THEN IF ~IsNumber(val) THEN [ok |-> FALSE, v |-> ar]
         ELSE IF key = "\"x\"" THEN [ok |-> TRUE, v |-> [ar EXCEPT !.X = ParseNumber(val)]]
         ELSE IF key = "\"y\"" THEN [ok |-> TRUE, v |-> [ar EXCEPT !.Y = ParseNumber(val)]]
         ELSE [ok |-> TRUE, v |-> [ar EXCEPT !.Width = ParseNumber(val)]]
    ELSE IF key = "\"tween\""
    THEN IF val \notin {"true", "false"} THEN [ok |-> FALSE, v |-> ar]
         ELSE [ok |-> TRUE, v |-> [ar EXCEPT !.Tween = (val = "true")]]
    ELSE [ok |-> TRUE, v |-> ar]

\* The members of an object from token i on, up to its closing brace.
RECURSIVE ParseMembers(_, _, _)
ParseMembers(toks, i, ar) ==
    IF i + 3 > Len(toks) \/ toks[i + 1] # ":" THEN Malformed
    ELSE LET set == SetMember(ar, toks[i], toks[i + 2])
         IN IF ~set.ok THEN Malformed
            ELSE IF toks[i + 3] = "}" THEN [ok |-> TRUE, v |-> set.v, next |-> i + 4]
            ELSE IF toks[i + 3] = "," THEN ParseMembers(toks, i + 4, set.v)
            ELSE Malformed

\* json.Unmarshal of the object that starts at token i into an Area.
ParseObject(toks, i) ==
    IF i + 1 > Len(toks) \/ toks[i] # "{" THEN Malformed
    ELSE IF toks[i + 1] = "}" THEN [ok |-> TRUE, v |-> ZeroArea, next |-> i + 2]
    ELSE ParseMembers(toks, i + 1, ZeroArea)

\* The elements of an array from token i on, after the elements in acc.
RECURSIVE ParseElems(_, _, _)
ParseElems(toks, i, acc) ==
    LET obj == ParseObject(toks, i)
    IN IF ~obj.ok \/ obj.next > Len(toks) THEN [ok |-> FALSE, v |-> <<>>]
       ELSE IF toks[obj.next] = "]"
            THEN [ok |-> obj.next = Len(toks), v |-> Append(acc, obj.v)]
       ELSE IF toks[obj.next] = ","
            THEN ParseElems(toks, obj.next + 1, Append(acc, obj.v))
       ELSE [ok |-> FALSE, v |-> <<>>]

\* json.Unmarshal(data, (*[]Area)(a))
ParseArray(toks) ==
    IF Len(toks) >= 2 /\ toks[2] = "]" THEN [ok |-> Len(toks) = 2, v |-> <<>>]
    ELSE ParseElems(toks, 2, <<>>)

\* Areas.UnmarshalJSON(data) on the value a: the error and the value after
\* the call.
UnmarshalJSON(a, data) ==
    IF Len(data) = 0 THEN [err |-> TRUE, a |-> a]
    ELSE IF data[1] = "["
    THEN LET arr == ParseArray(data)
         IN IF arr.ok THEN [err |-> FALSE, a |-> arr.v] ELSE [err |-> TRUE, a |-> a]
    ELSE IF data[1] = "{"
    THEN LET single == ParseObject(data, 1)
         IN IF single.ok /\ single.next = Len(data) + 1
            THEN [err |-> FALSE, a |-> <<single.v>>]
            ELSE [err |-> TRUE, a |-> a]
    ELSE [err |-> TRUE, a |-> a]

\* bits, err := json.Marshal(val), or the other ways of writing val.
Encode ==
    /\ apc = "start"
    /\ areasJSON' = CASE form = "marshal" -> MarshalJSON(areasIn)
                      [] form = "array" -> MarshalSlice(areasIn, <<>>)
                      [] form = "extra" -> MarshalSlice(areasIn, <<"\"height\"", ":", "6", ",">>)
    /\ apc' = "encoded"
    /\ UNCHANGED <<outsideAreas, areasIn, form, areasOut>>

\* json.Unmarshal(bits, &val)
Decode ==
    /\ apc = "encoded"
    /\ LET u == UnmarshalJSON(areasOut, areasJSON)
       IN /\ areasOut' = u.a
          /\ apc' = IF u.err THEN "error" ELSE "decoded"
    /\ UNCHANGED <<outsideAreas, areasIn, form, areasJSON>>

AreasInit ==
    /\ CacheIdle
    /\ closed = FALSE
    /\ DiskIdle
    /\ RectIdle
    /\ PageIdle
    /\ ColorIdle
    /\ WrapIdle
    /\ StoreIdle
    /\ PaletteIdle
    /\ LineIdle
    /\ GifIdle
    /\ areasIn \in UNION {[1..n -> JSONAreas] : n \in 0..MaxJSONAreas}
    /\ form \in Forms
    /\ areasJSON = <<>>
    /\ areasOut = <<>>
    /\ apc = "start"

AreasNext ==
    \/ Encode
    \/ Decode

\* An Areas value written as JSON and read back.
AreasSpec == AreasInit /\ [][AreasNext]_vars

\* ------------------------------------------------------------- slicePage
\* The int a two's complement machine keeps of the number x.
WrapInt(x) == ((x + 2 ^ (IntBits - 1)) % (2 ^ IntBits)) - 2 ^ (IntBits - 1)

\* s[start:end] of a slice whose capacity is its length.
Slice(s, start, end) ==
    IF start < 0 \/ end < start \/ end > Len(s) THEN Panic
    ELSE SubSeq(s, start + 1, end)

\* slicePage(vs, page, count): nil is the empty list.
slicePage(s, p, c) ==
    IF p < 0 THEN [items |-> s, last |-> TRUE]
    ELSE LET start == WrapInt((p - 1) * c)
             end == WrapInt(start + c)
         IN IF start >= Len(s) THEN [items |-> <<>>, last |-> TRUE]
            ELSE IF end >= Len(s) THEN [items |-> Slice(s, start, Len(s)), last |-> TRUE]
            ELSE [items |-> Slice(s, start, end), last |-> FALSE]

\* pageItems, isLast := slicePage(all, page, count)
SlicePage ==
    /\ ppc = "start"
    /\ pageItems' = slicePage(vs, page, count).items
    /\ isLast' = slicePage(vs, page, count).last
    /\ ppc' = "done"
    /\ UNCHANGED <<outsidePage, vs, page, count>>

\* The handler is called again with the next page.
NextPage ==
    /\ ppc = "done"
    /\ page >= 1
    /\ page < MaxInt
    /\ ~isLast
    /\ page' = page + 1
    /\ ppc' = "start"
    /\ UNCHANGED <<outsidePage, vs, count, pageItems, isLast>>

PageInit ==
    /\ CacheIdle
    /\ closed = FALSE
    /\ DiskIdle
    /\ RectIdle
    /\ AreasIdle
    /\ ColorIdle
    /\ WrapIdle
    /\ StoreIdle
    /\ PaletteIdle
    /\ LineIdle
    /\ GifIdle
    /\ vs \in {[i \in 1..n |-> i] : n \in 0..MaxItems}
    /\ page \in {-1} \cup 1..MaxInt
    /\ count \in 1..MaxInt
    /\ pageItems = <<>>
    /\ isLast = FALSE
    /\ ppc = "start"

PageNext ==
    \/ SlicePage
    \/ NextPage

\* A list paged by the page and count parameters parsePageOptions returns.
PageSpec == PageInit /\ [][PageNext]_vars

\* ---------------------------------------------------------------- claims
\* The janitor's removal phase unlinks the file at p in this step.
JanitorDeletes(p) ==
    /\ file[p] # "absent"
    /\ file'[p] = "absent"
    /\ jpc = "remove"
    /\ cand' # cand

\* The generations run for p that did not fail.
FailedGeneration(p) ==
    \E r \in Reqs : mid[r] = p /\ via[r] = "leader" /\ res[r] \notin {"none", "ok"}

\* C1: for concurrent requests for the same macro whose cache file does not
\* exist (and is not deleted later), with no generation failing, generateMacro
\* runs exactly once for the path.
C1_RendererRunsOnce ==
    \A p \in MacroIDs :
        (removedBy[p] = "none" /\ ~FailedGeneration(p)) => genCount[p] <= 1

\* C2: a request whose existence check finds the cache file goes straight to
\* serveFileCached: it is never a caller of the singleflight group, never runs
\* generateMacro, and what it serves carries the Etag recorded for the path.
C2_HitInv ==
    \A r \in Reqs :
        via[r] = "hit" =>
            /\ pc[r] \in {"serve", "done"}
            /\ res[r] = "none"
            /\ leader[r] = 0
            /\ \A p \in MacroIDs : flight[p] # r
            /\ pc[r] = "done" =>
                 /\ resp[r].code \in {"served", "notfound"}
                 /\ resp[r].etag \in {NoTag, etags[mid[r]]}
                 /\ etags[mid[r]] = NoTag => resp[r].etag = NoTag

C2_HitStep ==
    \A r \in Reqs :
        (pc[r] = "stat" /\ pc'[r] # "stat" /\ file[mid[r]] # "absent") =>
            /\ via'[r] = "hit"
            /\ pc'[r] = "serve"
            /\ flight' = flight
            /\ genCount' = genCount

C3_OneGenerationPerPath ==
    \A p \in MacroIDs : Cardinality(Generating(p)) <= 1

\* A second generation for the path is in progress after the first settled,
\* with the other request's call already over.
C3_Witness ==
    \E p \in MacroIDs :
        /\ Generating(p) # {}
        /\ genCount[p] >= 2

\* C4: when generateMacro or generateMacroGIF fails after creating the
\* destination, the file is gone from the cache path and the attempt stored no
\* Etag; a partial file is only ever at a path whose generation is in flight,
\* so a later existence check on a settled path misses.
C4_PartialOnlyInFlight ==
    \A p \in MacroIDs :
        file[p] = "partial" => \E r \in Generating(p) : pc[r] = "gen_encode"

C4_FailStep ==
    \A r \in Reqs :
        (pc[r] = "gen_encode" /\ res'[r] \notin {"none", "ok"}) =>
            /\ file'[mid[r]] = "absent"
            /\ etags' = etags
            /\ flight'[mid[r]] = 0

\* C4: a generation that fails after creating the destination removes it and
\* stores no Etag, and no partial file outlives its generation.
C4_FailedGenerationLeavesNoFile ==
    [](C4_PartialOnlyInFlight) /\ [][C4_FailStep]_vars

\* An encode failed after the file was created: the file is gone, no Etag.
C4_Witness ==
    \E r \in Reqs :
        /\ via[r] = "leader"
        /\ res[r] = "encode"
        /\ file[mid[r]] = "absent"
        /\ etags[mid[r]] = NoTag
        /\ removedBy[mid[r]] = "other"

\* C5: a request deduplicated onto a generation gets the result of the
\* caller that ran it; when that is an error it answers with the same error
\* and serves no file.
C5_WaitersShareError ==
    \A r \in Reqs :
        (via[r] = "waiter" /\ res[r] # "none") =>
            /\ res[r] = res[leader[r]]
            /\ res[r] # "ok" =>
                 /\ pc[r] = "done"
                 /\ resp[r].code = "error"
                 /\ resp[r] = resp[leader[r]]

\* A deduplicated request answered with the error of the call it waited for.
C5_Witness ==
    \E r \in Reqs :
        /\ via[r] = "waiter"
        /\ res[r] \notin {"none", "ok"}
        /\ pc[r] = "done"
        /\ resp[r].code = "error"

\* C6: a request that passed its existence check never fails to serve
\* because the janitor deleted the file in between.
C6_HitSurvivesEviction ==
    \A r \in Reqs :
        ~(via[r] = "hit" /\ resp[r].code = "notfound" /\ resp[r].by = "janitor")

\* C7: the janitor deletes a file only when the total size its scan added up
\* is above minPruneBytes (and it holds db.mu while it does).
C7_DeleteStep ==
    \A p \in MacroIDs : JanitorDeletes(p) => (totalSize > minPruneBytes /\ mu)

\* C7: in every step in which the janitor deletes a file, the scanned total is
\* strictly above minPruneBytes.
C7_EvictOnlyAboveThreshold == [][C7_DeleteStep]_vars

\* A whole scan found only candidates and a total of exactly minPruneBytes:
\* the tick ends without a deletion.
C7_Witness ==
    /\ jpc = "scan"
    /\ es = <<>>
    /\ Len(cand) > 0
    /\ totalSize = minPruneBytes
    /\ \A p \in MacroIDs : file[p] # "absent" => age[p] > maxAccessAge

\* C8 as stated: the janitor deletes only files whose access age exceeds
\* maxAccessAge when it deletes them.
C8_DeleteStaleStep ==
    \A p \in MacroIDs : JanitorDeletes(p) => age[p] > maxAccessAge

\* C8 as stated: every file the janitor deletes has, at that moment, an
\* access age above maxAccessAge.
C8_DeletesOnlyStale == [][C8_DeleteStaleStep]_vars

\* C8 as amended: the janitor deletes only paths whose access age exceeded
\* maxAccessAge when this tick's scan read their access time.
C8_DeleteScannedStaleStep ==
    \A p \in MacroIDs : JanitorDeletes(p) => p \in oldAtScan

\* C8 as amended: every file the janitor deletes was found stale by this
\* tick's scan.
C8_DeletesOnlyStaleAtScan == [][C8_DeleteScannedStaleStep]_vars

\* An eviction that removed a stale file and kept a fresh one.
C8_Witness ==
    \E p, q \in MacroIDs :
        /\ jpc = "remove"
        /\ cand = <<>>
        /\ removedBy[p] = "janitor"
        /\ file[p] = "absent"
        /\ file[q] = "complete"
        /\ q \notin oldAtScan
        /\ age[q] <= maxAccessAge

\* C9: whatever is deleted from the macros directory, and whenever, the
\* janitor keeps running without fault.
C9_JanitorNeverFaults == jpc # "panicked"

\* C10 as stated: once the context is cancelled the janitor begins no scan.
C10_NoScanStep == cancelled => ~(jpc = "select" /\ jpc' = "readdir")

\* C10 as stated: no step begins a scan once the context is cancelled.
C10_NoScanAfterCancel == [][C10_NoScanStep]_vars

\* C10 as amended: the janitor leaves only at its select and only when
\* cancelled, so a scan or eviction in progress is not interrupted; at the
\* select, cancelled and with no tick pending, it begins no scan; once it has
\* left it never runs again.
C10_CancelStep ==
    /\ (jpc = "select" /\ cancelled /\ ~tick) => jpc' \in {"select", "exited"}
    /\ (jpc' = "exited" /\ jpc # "exited") => (jpc = "select" /\ cancelled)
    /\ jpc = "exited" => (jpc' = "exited" /\ UNCHANGED <<es, cand, totalSize, mu>>)

\* C10 as amended: cancellation takes effect at the select only, and there,
\* with no tick pending, no scan begins; a janitor that left stays out.
C10_CancelStopsAtSelect == [][C10_CancelStep]_vars

\* The janitor evicted, and has left after the cancellation.
C10_Witness ==
    /\ jpc = "exited"
    /\ cancelled
    /\ \E p \in MacroIDs : removedBy[p] = "janitor"

\* C11: Close always returns with the janitor stopped: while Close waits
\* after cancelling the context, the janitor's goroutine can still take a step
\* towards its exit, or has exited so that Close can return.
C11_CloseNeverStuck ==
    (cancelled /\ ~closed) => ENABLED (JanitorStep \/ CloseReturn)

\* C12: rendering is deterministic: two renders of the same frames build the
\* same shared palette, with the same colours in the same order.
C12_RendersAgree ==
    \A a, b \in Renders :
        (palette[a] # <<>> /\ palette[b] # <<>>) => palette[a] = palette[b]

\* The frame indices resolved so far.
Resolved == 0..(Len(resolved) - 1)

PlainBands == Len(line.Field) >= 2 /\ \A k \in DOMAIN line.Field : ~line.Field[k].Tween

\* ceil(frameCount / N): the least n with n * N >= frameCount.
BandLength ==
    CHOOSE n \in 1..frameCount :
        /\ n * Len(line.Field) >= frameCount
        /\ (n - 1) * Len(line.Field) < frameCount

\* The frames resolved to the area at index k.
Band(k) == {i \in Resolved : resolved[i + 1].pos = k}

\* C14 as stated: for N >= 2 areas without tween, the frames 0..F-1 split
\* into N contiguous bands in the order of the areas, each of ceil(F/N) frames
\* except the last, which may be shorter; band k resolves to Area[k].
C14_NBandsOfEqualLength ==
    (PlainBands /\ Len(resolved) = frameCount) =>
        LET N == Len(line.Field) IN
        /\ \A i \in Resolved : resolved[i + 1].area = Untouched(line.Field[resolved[i + 1].pos + 1])
        /\ \A i, j \in Resolved : i <= j => resolved[i + 1].pos <= resolved[j + 1].pos
        /\ \A k \in 0..(N - 2) : Cardinality(Band(k)) = BandLength
        /\ Cardinality(Band(N - 1)) <= BandLength

\* C14 as amended: for N >= 2 areas without tween, frame i resolves to
\* Area[i div ceil(F/N)], unchanged: band k is the frames from k * ceil(F/N)
\* up to (k + 1) * ceil(F/N) - 1 that exist, and the area is constant on it.
C14_FrameInBandOfIndex ==
    PlainBands =>
        \A i \in Resolved :
            /\ resolved[i + 1].pos = i \div BandLength
            /\ resolved[i + 1].pos < Len(line.Field)
            /\ resolved[i + 1].area = Untouched(line.Field[(i \div BandLength) + 1])

\* Four frames and two different areas: frames 0-1 got Area[0], 2-3 Area[1].
C14_Witness ==
    /\ PlainBands
    /\ frameCount = 4
    /\ Len(line.Field) = 2
    /\ line.Field[1] # line.Field[2]
    /\ Len(resolved) = 4
    /\ resolved[1].area = Untouched(line.Field[1])
    /\ resolved[2].area = Untouched(line.Field[1])
    /\ resolved[3].area = Untouched(line.Field[2])
    /\ resolved[4].area = Untouched(line.Field[2])

\* C15: for a tweened area, at a frame index that is an exact multiple of
\* framesPerArea the resolved area is the active band's Area exactly, with no
\* interpolation.
C15_BandStartIsExact ==
    Len(line.Field) >= 2 =>
        \A i \in Resolved :
            LET cur == line.Field[(i \div BandLength) + 1] IN
            (cur.Tween /\ i % BandLength = 0) => resolved[i + 1].area = Untouched(cur)

\* A tweened area was resolved at the first frame of a band after the first,
\* next to a frame where it is interpolated towards a different area.
C15_Witness ==
    /\ Len(line.Field) >= 2
    /\ BandLength >= 2
    /\ \E i \in Resolved :
         /\ i > 0
         /\ i % BandLength = 0
         /\ i + 1 \in Resolved
         /\ line.Field[(i \div BandLength) + 1].Tween
         /\ resolved[i + 1].area = Untouched(line.Field[(i \div BandLength) + 1])
         /\ resolved[i + 2].area # resolved[i + 1].area

\* ceil(x * frameCount / FracDen): the least n with n * FracDen >= x * frameCount.
CeilFraction(x) ==
    CHOOSE n \in 0..frameCount :
        /\ n * FracDen >= x * frameCount
        /\ (n - 1) * FracDen < x * frameCount

C17_HiddenAfterEndFraction ==
    \A i \in Resolved :
        resolved[i + 1].visible =>
            /\ line.Start > 0 => i >= CeilFraction(line.Start)
            /\ line.End > line.Start => i < CeilFraction(line.End)

\* Task i has received from backdropReady[i]: it reads, or has read, its backdrop.
PastWait(i) == tpc[i] \in {"compose", "dispose", "signal", "text", "done"}

C18_ReadInv ==
    \A i \in Frames :
        PastWait(i) =>
            /\ backdrops[i] # Unset
            /\ i > 1 => tpc[i - 1] \in {"text", "done"}
            /\ tpc[i] # "compose" => SubSeq(dst[i], 1, Len(backdrops[i]) + 1) = Append(backdrops[i], i)

C18_ReadStep ==
    \A i \in Frames : (PastWait(i) \/ PastWait(i)') => backdrops'[i] = backdrops[i]

\* C18: under every scheduling of the frame tasks, when task i reads the
\* backdrop of frame i the task of frame i-1 has assigned it and signalled,
\* what it composes starts from that backdrop, and the backdrop is not
\* written from the moment task i may read it.
C18_BackdropReadyBeforeRead == [](C18_ReadInv) /\ [][C18_ReadStep]_vars

\* Two tasks hold a slot at once, the later one past its wait while the
\* earlier one still draws its text.
C18_Witness ==
    \E i \in Frames :
        /\ i > 1
        /\ tpc[i] = "compose"
        /\ tpc[i - 1] = "text"
        /\ backdrops[i] # Background

\* Frame i has handed its successor a backdrop.
HandedOver(i) == i < nframes /\ tpc[i] \in {"signal", "text", "done"}

\* C19: frame 0's backdrop is the plain background colour, and a frame that
\* is not the last hands on the plain background for DisposalBackground, its
\* own backdrop for DisposalPrevious, and for DisposalNone its backdrop with
\* its pixels (and not its text) drawn over.
C19_BackdropByDisposal ==
    /\ nframes > 0 => backdrops[1] = Background
    /\ \A i \in Frames :
         HandedOver(i) =>
            /\ disposal[i] = DisposalBackground => backdrops[i + 1] = Background
            /\ disposal[i] = DisposalPrevious => backdrops[i + 1] = backdrops[i]
            /\ disposal[i] = DisposalNone => backdrops[i + 1] = Append(backdrops[i], i)

\* A finished render in which a frame kept by DisposalNone was followed by
\* a DisposalPrevious frame and then a DisposalBackground one.
C19_Witness ==
    /\ returned
    /\ nframes >= 4
    /\ disposal[1] = DisposalNone /\ backdrops[2] = <<1>>
    /\ disposal[2] = DisposalPrevious /\ backdrops[3] = <<1>>
    /\ disposal[3] = DisposalBackground /\ backdrops[4] = Background
    /\ dst[2] = <<1, 2, -2>>

\* C20: a frame whose disposal is none of Background, Previous and None is
\* treated like DisposalNone: the next frame's backdrop is this frame's
\* rendered pixels.
C20_UnknownDisposalKeepsFrame ==
    \A i \in Frames :
        (HandedOver(i) /\ disposal[i] \notin {DisposalNone, DisposalBackground, DisposalPrevious}) =>
            backdrops[i + 1] = Append(backdrops[i], i)

\* C21: a GIF template that decodes to zero frames fails the generation
\* before the render and before os.Create: the step that returns "no frames in
\* GIF" is taken from the start of generateMacro, for a .gif template only,
\* and creates no cache file and no Etag; the request answers with the error.
C21_NoFramesStep ==
    \A r \in Reqs :
        (via[r] = "leader" /\ res[r] = "none" /\ res'[r] = "noframes") =>
            /\ pc[r] = "gen_open"
            /\ Ext(mid[r]) = ".gif"
            /\ file' = file
            /\ etags' = etags
            /\ pc'[r] = "done"
            /\ resp'[r].code = "error"
            /\ resp'[r].body = "noframes"

\* C21: every generation that fails for a GIF without frames leaves the cache
\* directory and the Etag table as they were.
C21_NoFramesCreatesNothing == [][C21_NoFramesStep]_vars

\* A generation failed for a GIF without frames: no file, no Etag.
C21_Witness ==
    \E r \in Reqs :
        /\ via[r] = "leader"
        /\ res[r] = "noframes"
        /\ file[mid[r]] = "absent"
        /\ etags[mid[r]] = NoTag
        /\ genCount[mid[r]] = 1

\* C22 as stated: when the shrink loop is left, the text wraps to at most two
\* lines or the font size is at the 6pt floor.
C22_ExitAtTwoLinesOrFloor ==
    wpc = "drawn" => (nlines <= maxWrappedLines \/ fontSize = minFontSize)

C22_ExitInv ==
    wpc = "drawn" =>
        \/ nlines <= maxWrappedLines
        \/ fontSize = minFontSize
        \/ fontSize < minFontSize /\ fontSize = fontSizeForImage(imgHeight)

C22_ShrinkStep ==
    fontSize' # fontSize =>
        \/ wpc = "start"
        \/ fontSize' = fontSize - 1 /\ fontSize' >= minFontSize

\* C22 as amended: the shrink loop terminates; it lowers the font size one
\* point at a time and never below 6pt; when it is left the text wraps to at
\* most two lines, or the size is exactly 6pt, or the size is the one computed
\* from the image height, below 6pt, which the loop never touched.
C22_ShrinkLoopTerminates ==
    /\ [](C22_ExitInv)
    /\ [][C22_ShrinkStep]_vars
    /\ (wpc = "start" ~> wpc = "drawn")

\* The loop shrank the font from 9pt to the floor and the text still takes
\* more than two lines.
C22_Witness ==
    /\ wpc = "drawn"
    /\ fontSizeForImage(imgHeight) = 9
    /\ fontSize = minFontSize
    /\ nlines > maxWrappedLines

\* C23: a hidden template is absent from Templates, TemplatesByCreator,
\* Template and TemplateByName, while TemplatePath still gives its path and
\* CachePath still gives the cache path of every macro made from it.
C23_HiddenOnlyUnlisted ==
    \A id \in DOMAIN dbTemplates :
        dbTemplates[id].Hidden =>
            /\ \A k \in 1..Len(Templates) : Templates[k] # id
            /\ \A u \in Users :
                \A k \in 1..Len(TemplatesByCreator(u)) : TemplatesByCreator(u)[k] # id
            /\ Template(id) = NotFound
            /\ id \notin TemplateByName(dbTemplates[id].Name)
            /\ TemplatePath(id) = dbTemplates[id].Path
            /\ TemplatePath(id) # ""
            /\ \A m \in DOMAIN dbMacros :
                dbMacros[m].TemplateID = id =>
                    /\ CachePath(dbMacros[m]) # ""
                    /\ RenderOutcome(dbMacros[m]) # "error"

\* A macro of a template hidden since still renders, under the cache path of
\* the unset seed.
C23_Witness ==
    \E m \in DOMAIN dbMacros :
        /\ RenderOutcome(dbMacros[m]) = "ok"
        /\ dbMacros[m].TemplateID \in DOMAIN dbTemplates
        /\ dbTemplates[dbMacros[m].TemplateID].Hidden
        /\ CachePath(dbMacros[m]) = "macros/0000-" \o Itoa(m) \o ".png"

\* The macros a step adds to the store.
Added == DOMAIN dbMacros' \ DOMAIN dbMacros

\* C24: no step adds a macro whose template is hidden at the time of the
\* add, whether the macro comes through POST /api/macro, the create page or
\* a call of DB.AddMacro.
C24_NoMacroOfHiddenTemplate ==
    [][\A id \in Added :
          LET t == dbMacros'[id].TemplateID
          IN ~(t \in DOMAIN dbTemplates /\ dbTemplates[t].Hidden)]_vars

\* C25: every macro in the store has at least one TextLine and the ID of a
\* template that is in the store, hidden or not.
C25_MacrosWellFormed ==
    \A id \in DOMAIN dbMacros :
        /\ Len(dbMacros[id].TextOverlay) >= 1
        /\ AnyTemplate(dbMacros[id].TemplateID) # NotFound

\* C26: every text line of a macro the renderer is given has at least one
\* area and Start and End within [0, 1], and drawing it does not fail for
\* want of an area, whichever handler created the macro.
C26_RenderedLinesValid ==
    \A id \in DOMAIN dbMacros :
        RenderOutcome(dbMacros[id]) # "error" =>
            /\ RenderOutcome(dbMacros[id]) # "panic"
            /\ \A k \in 1..Len(dbMacros[id].TextOverlay) :
                LET tl == dbMacros[id].TextOverlay[k]
                IN /\ Len(tl.Field) > 0
                   /\ tl.Start >= 0 /\ tl.Start <= FracDen
                   /\ tl.End >= 0 /\ tl.End <= FracDen

\* C27: once a macro is deleted from the store and no request is in flight,
\* the cache holds no file of that macro.
C27_DeletedMacroLeavesNoFile ==
    (\A r \in Reqs : pc[r] \in {"idle", "done"}) =>
        \A m \in MacroIDs \ macros : file[m] = "absent"

\* C28: a step that changes the cache seed changes the cache path of every
\* macro, the unset seed included among the seeds changed from and to.
C28_NewSeedNewPaths ==
    [][cacheSeed' # cacheSeed =>
          \A id \in DOMAIN dbMacros :
              CachePath(dbMacros[id]) # "" =>
                  CachePath(dbMacros[id])' # CachePath(dbMacros[id])]_vars

\* C29: for every name n of the colour table with hex string c, parsing n
\* and parsing c succeed and give the same Color, and marshalling that Color
\* gives n.
C29_NamedColorsRoundTrip ==
    text \in DOMAIN n2c =>
        /\ cpc # "error"
        /\ cpc \in {"in2", "out"} => in1 = in2
        /\ cpc = "out" => out = text

\* The name gray, whose channels are 128/255, was parsed and marshalled.
C29_Witness ==
    /\ text = "gray"
    /\ cpc = "out"
    /\ in1 = <<<<128, 255>>, <<128, 255>>, <<128, 255>>>>
    /\ out = "gray"

\* C30: Areas.MarshalJSON writes a list of exactly one Area as an object and
\* a list of any other length as an array; Areas.UnmarshalJSON accepts the
\* object and the array, and gives back the value that was encoded.
C30_AreasRoundTrip ==
    /\ apc # "error"
    /\ (apc # "start" /\ form = "marshal") =>
          /\ Len(areasIn) = 1 => areasJSON[1] = "{"
          /\ Len(areasIn) # 1 => areasJSON[1] = "["
    /\ apc = "decoded" => areasOut = areasIn

\* One area with a width and the tween flag was written as an object and
\* read back.
C30_Witness ==
    /\ apc = "decoded"
    /\ form = "marshal"
    /\ Len(areasIn) = 1
    /\ areasIn[1] = [X |-> 25, Y |-> 2, Width |-> -99, Tween |-> TRUE]
    /\ areasJSON = <<"{", "\"x\"", ":", "25", ",", "\"y\"", ":", "2", ",",
                    "\"width\"", ":", "-99", ",", "\"tween\"", ":", "true", "}">>
    /\ areasOut = areasIn

\* The smaller of two numbers.
Min(a, b) == IF a < b THEN a ELSE b

\* C31: slicePage of page p >= 1 and count c >= 1 returns the items at
\* positions (p-1)*c up to min(p*c, n) in order, nil when (p-1)*c >= n, and
\* isLast exactly when no item lies beyond the page; a negative page returns
\* the whole list.
C31_PageIsItsRange ==
    ppc = "done" =>
        IF page < 0 THEN pageItems = vs /\ isLast
        ELSE /\ pageItems # Panic
             /\ pageItems = SubSeq(vs, (page - 1) * count + 1, Min(page * count, Len(vs)))
             /\ isLast <=> page * count >= Len(vs)

\* C32: whenever an ETag is recorded for a cache path that has a file, it is
\* the hash makeFileEtag computes of the bytes in that file.
C32_EtagIsHashOfFile ==
    \A p \in MacroIDs :
        (etags[p] # NoTag /\ file[p] # "absent") => etags[p] = makeFileEtag(p)

\* C37: a request that found the cache file with its existence check never
\* serves a file that a generation has created and not finished writing.
C37_HitServesCompleteFile ==
    \A r \in Reqs :
        (via[r] = "hit" /\ resp[r].code = "served") => resp[r].body = "complete"

\* The fraction a is at most the fraction b.
RatLe(a, b) == a[1] * b[2] <= b[1] * a[2]

\* The fraction v lies between the integers a and b, in either order.
RatBetween(v, a, b) ==
    \/ RatLe(Rat(a, 1), v) /\ RatLe(v, Rat(b, 1))
    \/ RatLe(Rat(b, 1), v) /\ RatLe(v, Rat(a, 1))

\* The frames resolved inside a band (rem # 0) whose area is tweened.
Tweened ==
    {i \in Resolved :
        /\ Len(line.Field) >= 2
        /\ i % BandLength # 0
        /\ line.Field[resolved[i + 1].pos + 1].Tween}

\* C33: for a tweened area at a frame i with rem = i mod framesPerArea # 0, the
\* resolved X and Y are cur + (rem / framesPerArea) * (next - cur), with cur the
\* active area and next the area at index (active + 1) mod N; the result lies
\* between cur and next on each axis, and Width and the tween flag are cur's.
C33_TweenIsLinearTowardsNext ==
    \A i \in Tweened :
        LET N == Len(line.Field)
            active == resolved[i + 1].pos
            cur == line.Field[active + 1]
            next == line.Field[((active + 1) % N) + 1]
            rem == i % BandLength
            got == resolved[i + 1].area
        IN /\ got.X[1] * BandLength = (cur.X * BandLength + rem * (next.X - cur.X)) * got.X[2]
           /\ got.Y[1] * BandLength = (cur.Y * BandLength + rem * (next.Y - cur.Y)) * got.Y[2]
           /\ RatBetween(got.X, cur.X, next.X)
           /\ RatBetween(got.Y, cur.Y, next.Y)
           /\ got.Width = cur.Width
           /\ got.Tween = cur.Tween

\* A tweened area was resolved strictly between itself and a next area that
\* differs from it in position and in width, the next area being the first
\* one again (the cyclic case).
C33_Witness ==
    \E i \in Tweened :
        LET N == Len(line.Field)
            active == resolved[i + 1].pos
            cur == line.Field[active + 1]
            next == line.Field[((active + 1) % N) + 1]
            got == resolved[i + 1].area
        IN /\ active = N - 1
           /\ cur.X # next.X
           /\ cur.Y # next.Y
           /\ cur.Width # next.Width
           /\ got.X # Rat(cur.X, 1) /\ got.X # Rat(next.X, 1)
           /\ got.Y # Rat(cur.Y, 1) /\ got.Y # Rat(next.Y, 1)
           /\ got.Width = cur.Width

\* C34: the width a line is word-wrapped to on frame i is the fractional
\* width of the area active at frame i (the full image width when that width
\* is 0), not the width of another area of the line.
C34_WrapWidthOfActiveArea ==
    \A i \in Resolved :
        resolved[i + 1].visible =>
            LET active == line.Field[resolved[i + 1].pos + 1]
            IN resolved[i + 1].box.width =
                   IF active.Width = 0 THEN Rat(1, 1) ELSE Rat(active.Width, FracDen)

\* C35: the bounding rectangle used for every output frame holds every source
\* frame at its own offset: each frame's rectangle lies inside the normalized
\* bounds, so no pixel of a frame is clipped when it is drawn.
C35_BoundsHoldEveryFrame ==
    gifBounds # NoRect =>
        \A i \in DOMAIN frameRects :
            /\ In(frameRects[i], gifBounds)
            /\ drawn[i] # NoRect => drawn[i] = frameRects[i]

\* C36: DrawGIF always completes: for every frame count >= 1 and every limit
\* of the task group >= 1, every frame task eventually runs to completion and
\* g.Wait() returns; no task waits forever on a backdrop whose producer cannot
\* get a slot of the group.
C36_DrawGIFCompletes == <>(returned /\ \A i \in Frames : tpc[i] = "done")

\* A GIF of more frames than the group has slots was rendered to the end:
\* the last frame carries its text and g.Wait() has returned.
C36_Witness ==
    /\ returned
    /\ limit = 1
    /\ nframes >= 2
    /\ \A i \in Frames : tpc[i] = "done" /\ dst[i] # Unset

\* C38: whenever a file exists at the cache path of a macro that is in the
\* store and no generation for that path is in flight, the file holds the
\* rendering of that macro's own overlay on its own template, never one
\* rendered for a different macro that had the same ID.
C38_CachedFileIsOwnRendering ==
    \A id \in DOMAIN dbMacros :
        LET path == CachePath(dbMacros[id]) IN
        (path # "" /\ path \in DOMAIN macroFiles /\ generating.path # path) =>
            macroFiles[path] = Rendering(dbMacros[id])

\* C39: AddMacro never assigns an ID that is or was the ID of another macro:
\* every ID assigned is the value of the counter, which the assignment
\* increases and which no step decreases, so that the IDs assigned are strictly
\* increasing, across DeleteMacro and across closing and reopening the store.
C39_MacroIDsIncrease ==
    [][/\ nextMacroID' >= nextMacroID
       /\ \A id \in DOMAIN dbMacros' \ DOMAIN dbMacros :
              id >= nextMacroID /\ nextMacroID' > id]_vars

\* C40: no two templates of the store that are not hidden share a canonical
\* name, under every interleaving of concurrent AddTemplate calls and
\* SetTemplateHidden(id, false) calls.
C40_VisibleNamesUnique ==
    \A i, j \in DOMAIN dbTemplates :
        (i # j /\ ~dbTemplates[i].Hidden /\ ~dbTemplates[j].Hidden) =>
            dbTemplates[i].Name # dbTemplates[j].Name

====
